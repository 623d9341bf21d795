----------------------------- MODULE JobProofs ------------------------------
(***************************************************************************)
(* Theorems about what is run away from the caller.  JobHandle, for every  *)
(* set of jobs and of Python threads, every size of the pool and whenever  *)
(* get() is called: what clients are told and given has its results.       *)
(* MpiResults, for every number of processes, of runs and of shots: up to  *)
(* the first run in which a backend fails, a message has no elements or    *)
(* native results are synced, the supervisor collects each run's outputs   *)
(* from that run, and all its shots.                                       *)
(***************************************************************************)
EXTENDS JobHandle, MpiResults, TLAPS

-----------------------------------------------------------------------------
(* Asynchronous jobs.                                                      *)

Places == {"none", "queued", "acquire", "clear", "store", "reacquire", "set", "ended"}
AfterRun == {"clear", "store", "reacquire", "set", "ended"}
AfterHandle == {"reacquire", "set", "ended"}
Left == {"set", "ended"}

Types ==
    /\ pending \in Seq(Tasks)
    /\ place \in [Tasks -> Places]
    /\ doing \in [Clients -> {Nobody} \cup ({"future", "poll"} \X Jobs)]
    /\ m_thread_running \in [Jobs -> BOOLEAN]
    /\ m_handle \in [Jobs -> BOOLEAN]

Queued == \A i \in DOMAIN pending : place[pending[i]] # "none"

LocalRuns ==
    \A j \in LocalJobs :
        /\ ~m_handle[j]
        /\ place[Run(j)] # "store"
        /\ place[Run(j)] \in AfterRun => j \in results
        /\ Posted(j) /\ ~m_thread_running[j] => j \in results

RemoteRuns ==
    \A j \in RemoteJobs :
        /\ place[Run(j)] \in AfterHandle => m_handle[j]
        /\ place[Callbacks(j)] \in Left => j \in results

\* A client that waits for the future of a Braket job waits for ever: it keeps
\* the lock the task needs to leave.
Blocked ==
    \A c \in Clients, j \in RemoteJobs :
        doing[c] = <<"future", j>> => gil = c /\ place[Run(j)] \notin Left

Inv == Types /\ Queued /\ LocalRuns /\ RemoteRuns /\ Blocked /\ ClientsSeeResults

-----------------------------------------------------------------------------
\* Tasks of different jobs, and the two tasks of a job, are different.
LEMMA TasksDiffer ==
  /\ \A j \in Jobs : Run(j) \in Tasks
  /\ \A j \in RemoteJobs : Callbacks(j) \in Tasks
  /\ \A j, k : Run(j) = Run(k) => j = k
  /\ \A j, k : Callbacks(j) = Callbacks(k) => j = k
  /\ \A j, k : Run(j) # Callbacks(k)
  BY DEF Run, Callbacks, Tasks

LEMMA KindsOfJobs ==
  /\ \A j : j \in Jobs <=> j \in LocalJobs \/ j \in RemoteJobs
  /\ \A j : ~(j \in LocalJobs /\ j \in RemoteJobs)
  BY JobAssumption DEF Jobs

LEMMA InitInv == Init => Inv
  <1> SUFFICES ASSUME Init PROVE Inv
    OBVIOUS
  <1>1. pending = <<>>
    BY DEF Init, Pool!Init
  <1>2. Types
    <2>1. pending \in Seq(Tasks) /\ place \in [Tasks -> Places]
      <3>1. "none" \in Places /\ <<>> \in Seq(Tasks)
        BY DEF Places
      <3> QED
        BY <1>1, <3>1 DEF Init
    <2>2. doing \in [Clients -> {Nobody} \cup ({"future", "poll"} \X Jobs)]
      BY DEF Init
    <2>3. m_thread_running \in [Jobs -> BOOLEAN] /\ m_handle \in [Jobs -> BOOLEAN]
      BY DEF Init
    <2> QED
      BY <2>1, <2>2, <2>3 DEF Types
  <1>2a. Queued
    BY <1>1 DEF Queued
  <1>3. LocalRuns /\ RemoteRuns
    BY TasksDiffer, KindsOfJobs DEF Init, LocalRuns, RemoteRuns, Posted, AfterRun, AfterHandle, Left
  <1>4. Blocked
    BY JobAssumption, KindsOfJobs DEF Init, Blocked
  <1>5. ClientsSeeResults
    BY DEF Init, ClientsSeeResults, LocalCompleteMeansResults, GetReturnsResults
  <1> QED
    BY <1>2, <1>2a, <1>3, <1>4, <1>5 DEF Inv

\* Steps that change no task's place: results and handles stay, no client
\* begins to wait for a future, and a client that does keeps the lock.
LEMMA PlacesStay ==
  ASSUME Inv, pending' = pending, place' = place, results' = results,
         m_handle' = m_handle, m_thread_running' = m_thread_running,
         doing' \in [Clients -> {Nobody} \cup ({"future", "poll"} \X Jobs)],
         \A c \in Clients, j \in RemoteJobs :
             doing'[c] = <<"future", j>> => gil' = c /\ place[Run(j)] \notin Left,
         ClientsSeeResults'
  PROVE  Inv'
  BY DEF Inv, Types, Queued, LocalRuns, RemoteRuns, Blocked, Posted

\* Steps that move one task.
LEMMA TaskMoves ==
  ASSUME Inv, NEW t \in Tasks, NEW there \in Places,
         place' = [place EXCEPT ![t] = there], there # "none",
         pending' \in Seq(Tasks),
         \A i \in DOMAIN pending' : pending'[i] = t \/ \E k \in DOMAIN pending : pending'[i] = pending[k],
         m_thread_running' \in [Jobs -> BOOLEAN], m_handle' \in [Jobs -> BOOLEAN],
         doing' = doing, ClientsSeeResults',
         results \subseteq results',
         \A j \in Jobs : Run(j) # t => m_handle'[j] = m_handle[j] /\ m_thread_running'[j] = m_thread_running[j],
         \A j \in LocalJobs : Run(j) = t =>
             /\ ~m_handle'[j] /\ there # "store"
             /\ there \in AfterRun \/ ~m_thread_running'[j] => j \in results',
         \A j \in RemoteJobs :
             /\ Run(j) = t => m_handle'[j] \/ there \notin AfterHandle
             /\ Callbacks(j) = t /\ there \in Left => j \in results',
         \A c \in Clients, j \in RemoteJobs :
             doing[c] = <<"future", j>> => gil' = c /\ (Run(j) = t => there \notin Left)
  PROVE  Inv'
  <1> USE DEF Inv
  <1>0. /\ \A u \in Tasks : place'[u] = IF u = t THEN there ELSE place[u]
        /\ \A j \in Jobs : Run(j) \in Tasks
        /\ \A j \in RemoteJobs : Callbacks(j) \in Tasks
        /\ \A j \in LocalJobs \cup RemoteJobs : j \in Jobs
    BY TasksDiffer, KindsOfJobs DEF Types
  <1>1. Types'
    BY DEF Types
  <1>2. Queued'
    <2>1. \A k \in DOMAIN pending : pending[k] \in Tasks
      BY DEF Types
    <2> QED
      BY <1>0, <2>1 DEF Queued
  <1>3. LocalRuns'
    <2> SUFFICES ASSUME NEW j \in LocalJobs
                 PROVE  /\ ~m_handle'[j]
                        /\ place'[Run(j)] # "store"
                        /\ place'[Run(j)] \in AfterRun => j \in results'
                        /\ place'[Run(j)] # "none" /\ ~m_thread_running'[j] => j \in results'
      BY DEF LocalRuns, Posted
    <2>1. CASE Run(j) = t
      BY <1>0, <2>1
    <2>2. CASE Run(j) # t
      BY <1>0, <2>2 DEF LocalRuns, Posted
    <2> QED
      BY <2>1, <2>2
  <1>4. RemoteRuns'
    <2> SUFFICES ASSUME NEW j \in RemoteJobs
                 PROVE  /\ place'[Run(j)] \in AfterHandle => m_handle'[j]
                        /\ place'[Callbacks(j)] \in Left => j \in results'
      BY DEF RemoteRuns
    <2>1. place'[Run(j)] \in AfterHandle => m_handle'[j]
      BY <1>0 DEF RemoteRuns
    <2>2. place'[Callbacks(j)] \in Left => j \in results'
      BY <1>0 DEF RemoteRuns
    <2> QED
      BY <2>1, <2>2
  <1>5. Blocked'
    BY <1>0 DEF Blocked
  <1> QED
    BY <1>1, <1>2, <1>3, <1>4, <1>5

\* The answer and the effect of complete(), of terminate() and of a poll.
LEMMA DoneMoves ==
  ASSUME Inv, NEW j \in RemoteJobs, DoneEffect(j),
         gil' = gil, doing' = doing, results' = results,
         m_handle' = m_handle, m_thread_running' = m_thread_running, ClientsSeeResults'
  PROVE  Inv'
  <1>0. Callbacks(j) \in Tasks /\ pending \in Seq(Tasks)
    BY TasksDiffer DEF Inv, Types
  <1>1. CASE UNCHANGED <<poolVars, place>>
    <2>1. pending' = pending /\ place' = place
      BY <1>1 DEF poolVars
    <2>2. doing' \in [Clients -> {Nobody} \cup ({"future", "poll"} \X Jobs)]
      BY DEF Inv, Types
    <2>3. \A c \in Clients, k \in RemoteJobs :
             doing'[c] = <<"future", k>> => gil' = c /\ place[Run(k)] \notin Left
      BY DEF Inv, Blocked
    <2> QED
      BY <2>1, <2>2, <2>3, PlacesStay
  <1>2. CASE /\ Pool!Accept(Callbacks(j))
             /\ place' = [place EXCEPT ![Callbacks(j)] = "queued"]
    <2>1. pending' = Append(pending, Callbacks(j))
      BY <1>2 DEF Pool!Accept
    <2>2. pending' \in Seq(Tasks) /\ Len(pending') = Len(pending) + 1
          /\ \A i \in 1..Len(pending') : pending'[i] = IF i <= Len(pending) THEN pending[i] ELSE Callbacks(j)
      BY <1>0, <2>1
    <2>3. \A i \in DOMAIN pending' : pending'[i] = Callbacks(j) \/ \E k \in DOMAIN pending : pending'[i] = pending[k]
      BY <1>0, <2>2
    <2>4. "queued" \in Places /\ "queued" # "none" /\ "queued" \notin Left
      BY DEF Left, Places
    <2>5. m_thread_running' \in [Jobs -> BOOLEAN] /\ m_handle' \in [Jobs -> BOOLEAN]
      BY DEF Inv, Types
    <2>6. \A k \in Jobs : Run(k) # Callbacks(j) =>
              m_handle'[k] = m_handle[k] /\ m_thread_running'[k] = m_thread_running[k]
      OBVIOUS
    <2>7. \A k \in LocalJobs : Run(k) = Callbacks(j) =>
             /\ ~m_handle'[k] /\ "queued" # "store"
             /\ "queued" \in AfterRun \/ ~m_thread_running'[k] => k \in results'
      BY TasksDiffer
    <2>8. \A k \in RemoteJobs :
             /\ Run(k) = Callbacks(j) => m_handle'[k] \/ "queued" \notin AfterHandle
             /\ Callbacks(k) = Callbacks(j) /\ "queued" \in Left => k \in results'
      BY <2>4, TasksDiffer
    <2>9. \A c \in Clients, k \in RemoteJobs :
             doing[c] = <<"future", k>> => gil' = c /\ (Run(k) = Callbacks(j) => "queued" \notin Left)
      BY <2>4 DEF Inv, Blocked
    <2>10. results \subseteq results' /\ place' = [place EXCEPT ![Callbacks(j)] = "queued"]
      BY <1>2
    <2> QED
      BY <1>0, <2>2, <2>3, <2>4, <2>5, <2>6, <2>7, <2>8, <2>9, <2>10, TaskMoves
  <1> QED
    BY <1>1, <1>2 DEF DoneEffect

-----------------------------------------------------------------------------
\* A job that says it is complete has its results, if it is a local one, and
\* a Braket job that says so has them whenever done() is what it asked.
LEMMA ReportsHold ==
  ASSUME Inv, NEW j \in LocalJobs, Posted(j), CompleteAnswer(j)
  PROVE  j \in results
  BY DEF Inv, LocalRuns, CompleteAnswer

\* Steps that leave alone all the invariant speaks of, and at most hand over
\* the lock that no client waiting for the future of a Braket job holds.
LEMMA LockMoves ==
  ASSUME Inv, pending' = pending, place' = place, results' = results,
         m_handle' = m_handle, m_thread_running' = m_thread_running, doing' = doing,
         reported' = reported, returned' = returned,
         \A c \in Clients, j \in RemoteJobs : doing[c] = <<"future", j>> => gil' = gil
  PROVE  Inv'
  <1>1. doing' \in [Clients -> {Nobody} \cup ({"future", "poll"} \X Jobs)]
    BY DEF Inv, Types
  <1>2. \A c \in Clients, j \in RemoteJobs :
           doing'[c] = <<"future", j>> => gil' = c /\ place[Run(j)] \notin Left
    BY DEF Inv, Blocked
  <1>3. ClientsSeeResults'
    BY DEF Inv, ClientsSeeResults, LocalCompleteMeansResults, GetReturnsResults
  <1> QED
    BY <1>1, <1>2, <1>3, PlacesStay

\* Nobody waits for the future of a Braket job while a task holds the lock.
LEMMA NobodyBlocks ==
  ASSUME Inv, gil \in Tasks \cup {Nobody}
  PROVE  \A c \in Clients, j \in RemoteJobs : doing[c] # <<"future", j>>
  BY JobAssumption DEF Inv, Blocked

\* Steps of a task that holds the lock, or needs none.
LEMMA TaskSteps ==
  ASSUME Inv, NEW t \in Tasks, NEW there \in Places \ {"none"},
         place' = [place EXCEPT ![t] = there], pending' = pending,
         m_thread_running' \in [Jobs -> BOOLEAN], m_handle' \in [Jobs -> BOOLEAN],
         doing' = doing, reported' = reported, returned' = returned,
         results \subseteq results',
         \A j \in Jobs : Run(j) # t => m_handle'[j] = m_handle[j] /\ m_thread_running'[j] = m_thread_running[j],
         \A j \in LocalJobs : Run(j) = t =>
             /\ ~m_handle'[j] /\ there # "store"
             /\ there \in AfterRun \/ ~m_thread_running'[j] => j \in results',
         \A j \in RemoteJobs :
             /\ Run(j) = t => m_handle'[j] \/ there \notin AfterHandle
             /\ Callbacks(j) = t /\ there \in Left => j \in results',
         \/ gil \in Tasks
         \/ gil' = gil /\ (\A j \in RemoteJobs : Run(j) = t /\ there \in Left => place[t] \in Left)
  PROVE  Inv'
  <1>1. ClientsSeeResults'
    BY DEF Inv, ClientsSeeResults, LocalCompleteMeansResults, GetReturnsResults
  <1>2. there \in Places /\ there # "none"
    OBVIOUS
  <1>3. pending' \in Seq(Tasks)
    BY DEF Inv, Types
  <1>4. \A i \in DOMAIN pending' : pending'[i] = t \/ \E k \in DOMAIN pending : pending'[i] = pending[k]
    OBVIOUS
  <1>5. \A c \in Clients, j \in RemoteJobs :
           doing[c] = <<"future", j>> => gil' = c /\ (Run(j) = t => there \notin Left)
    <2>1. CASE gil \in Tasks
      BY <2>1, NobodyBlocks
    <2>2. CASE gil' = gil /\ (\A j \in RemoteJobs : Run(j) = t /\ there \in Left => place[t] \in Left)
      BY <2>2 DEF Inv, Blocked
    <2> QED
      BY <2>1, <2>2
  <1> QED
    BY <1>1, <1>2, <1>3, <1>4, <1>5, TaskMoves

-----------------------------------------------------------------------------
LEMMA StartKeeps ==
  ASSUME Inv, Start
  PROVE  Inv'
  <1>1. pending # <<>> /\ pending' = Tail(pending)
    BY DEF Start, Pool!Start
  <1>2. /\ 1 \in DOMAIN pending /\ Head(pending) = pending[1] /\ Head(pending) \in Tasks
        /\ pending' \in Seq(Tasks)
        /\ \A i \in DOMAIN pending' : i + 1 \in DOMAIN pending /\ pending'[i] = pending[i + 1]
    BY <1>1 DEF Inv, Types
  <1>3. place[Head(pending)] # "none"
    BY <1>2 DEF Inv, Queued
  <1>4. \A i \in DOMAIN pending' :
           pending'[i] = Head(pending) \/ \E k \in DOMAIN pending : pending'[i] = pending[k]
    BY <1>2
  <1>5. /\ place' = [place EXCEPT ![Head(pending)] = "acquire"]
        /\ gil' = gil /\ doing' = doing /\ results' = results
        /\ m_handle' = m_handle /\ m_thread_running' = m_thread_running
        /\ reported' = reported /\ returned' = returned
    BY DEF Start, handleVars, seenVars
  <1>6. /\ "acquire" \in Places /\ "acquire" # "none" /\ "acquire" # "store"
        /\ "acquire" \notin AfterRun /\ "acquire" \notin AfterHandle /\ "acquire" \notin Left
    BY DEF Places, AfterRun, AfterHandle, Left
  <1>7. m_thread_running' \in [Jobs -> BOOLEAN] /\ m_handle' \in [Jobs -> BOOLEAN] /\ ClientsSeeResults'
    BY <1>5 DEF Inv, Types, ClientsSeeResults, LocalCompleteMeansResults, GetReturnsResults
  <1>8. \A j \in LocalJobs : Run(j) = Head(pending) =>
           /\ ~m_handle'[j] /\ "acquire" # "store"
           /\ "acquire" \in AfterRun \/ ~m_thread_running'[j] => j \in results'
    BY <1>3, <1>5, <1>6 DEF Inv, LocalRuns, Posted
  <1>9. \A j \in RemoteJobs :
           /\ Run(j) = Head(pending) => m_handle'[j] \/ "acquire" \notin AfterHandle
           /\ Callbacks(j) = Head(pending) /\ "acquire" \in Left => j \in results'
    BY <1>6
  <1>10. \A c \in Clients, j \in RemoteJobs :
            doing[c] = <<"future", j>> => gil' = c /\ (Run(j) = Head(pending) => "acquire" \notin Left)
    BY <1>5, <1>6 DEF Inv, Blocked
  <1>11. /\ results \subseteq results'
         /\ \A j \in Jobs : Run(j) # Head(pending) =>
               m_handle'[j] = m_handle[j] /\ m_thread_running'[j] = m_thread_running[j]
    BY <1>5
  <1> QED
    BY <1>2, <1>4, <1>5, <1>6, <1>7, <1>8, <1>9, <1>10, <1>11, TaskMoves

\* The task of a job, from the session's run to the end.
LEMMA RunSessionKeeps ==
  ASSUME Inv, NEW j \in Jobs, RunSession(j)
  PROVE  Inv'
  <1>1. Run(j) \in Tasks /\ "clear" \in Places \ {"none"} /\ "clear" # "store"
        /\ "clear" \notin AfterHandle /\ "clear" \notin Left
    BY TasksDiffer DEF Places, AfterHandle, Left
  <1>2. /\ place' = [place EXCEPT ![Run(j)] = "clear"] /\ gil \in Tasks
        /\ pending' = pending /\ doing' = doing /\ reported' = reported /\ returned' = returned
        /\ m_handle' = m_handle /\ m_thread_running' = m_thread_running
        /\ results \subseteq results' /\ (j \in LocalJobs => j \in results')
    BY <1>1 DEF RunSession, poolVars, handleVars, seenVars
  <1>3. m_thread_running' \in [Jobs -> BOOLEAN] /\ m_handle' \in [Jobs -> BOOLEAN]
    BY <1>2 DEF Inv, Types
  <1>4. \A k \in LocalJobs : Run(k) = Run(j) =>
           /\ ~m_handle'[k] /\ "clear" # "store"
           /\ "clear" \in AfterRun \/ ~m_thread_running'[k] => k \in results'
    BY <1>1, <1>2, TasksDiffer DEF Inv, LocalRuns
  <1>5. \A k \in RemoteJobs :
           /\ Run(k) = Run(j) => m_handle'[k] \/ "clear" \notin AfterHandle
           /\ Callbacks(k) = Run(j) /\ "clear" \in Left => k \in results'
    BY <1>1
  <1>6. \A k \in Jobs : Run(k) # Run(j) =>
           m_handle'[k] = m_handle[k] /\ m_thread_running'[k] = m_thread_running[k]
    BY <1>2
  <1> QED
    BY <1>1, <1>2, <1>3, <1>4, <1>5, <1>6, TaskSteps

LEMMA ClearFlagKeeps ==
  ASSUME Inv, NEW j \in Jobs, ClearFlag(j)
  PROVE  Inv'
  <1> DEFINE there == IF j \in LocalJobs THEN "reacquire" ELSE "store"
  <1>1. Run(j) \in Tasks /\ there \in Places \ {"none"} /\ there \notin Left
    BY TasksDiffer DEF Places, Left
  <1>2. /\ place' = [place EXCEPT ![Run(j)] = there] /\ place[Run(j)] = "clear"
        /\ pending' = pending /\ doing' = doing /\ reported' = reported /\ returned' = returned
        /\ m_handle' = m_handle /\ m_thread_running' = [m_thread_running EXCEPT ![j] = FALSE]
        /\ results' = results /\ gil' = gil
    BY <1>1 DEF ClearFlag, poolVars, handleVars, seenVars, Inv, Types
  <1>3. m_thread_running' \in [Jobs -> BOOLEAN] /\ m_handle' \in [Jobs -> BOOLEAN]
    BY <1>2 DEF Inv, Types
  <1>4. \A k \in LocalJobs : Run(k) = Run(j) =>
           /\ ~m_handle'[k] /\ there # "store"
           /\ there \in AfterRun \/ ~m_thread_running'[k] => k \in results'
    BY <1>2, TasksDiffer DEF Inv, LocalRuns, AfterRun
  <1>5. \A k \in RemoteJobs :
           /\ Run(k) = Run(j) => m_handle'[k] \/ there \notin AfterHandle
           /\ Callbacks(k) = Run(j) /\ there \in Left => k \in results'
    BY <1>1, TasksDiffer, KindsOfJobs DEF AfterHandle
  <1>6. \A k \in Jobs : Run(k) # Run(j) =>
           m_handle'[k] = m_handle[k] /\ m_thread_running'[k] = m_thread_running[k]
    BY <1>2 DEF Inv, Types
  <1>7. /\ results \subseteq results' /\ gil' = gil
        /\ \A k \in RemoteJobs : Run(k) = Run(j) /\ there \in Left => place[Run(j)] \in Left
    BY <1>1, <1>2
  <1> HIDE DEF there
  <1> QED
    BY <1>1, <1>2, <1>3, <1>4, <1>5, <1>6, <1>7, TaskSteps

LEMMA StoreHandleKeeps ==
  ASSUME Inv, NEW j \in RemoteJobs, StoreHandle(j)
  PROVE  Inv'
  <1>1. /\ Run(j) \in Tasks /\ "reacquire" \in Places \ {"none"} /\ j \in Jobs
        /\ "reacquire" \notin Left /\ "reacquire" # "store"
    BY TasksDiffer, KindsOfJobs DEF Places, Left
  <1>2. /\ place' = [place EXCEPT ![Run(j)] = "reacquire"]
        /\ pending' = pending /\ doing' = doing /\ reported' = reported /\ returned' = returned
        /\ m_handle' = [m_handle EXCEPT ![j] = TRUE] /\ m_thread_running' = m_thread_running
        /\ results' = results /\ gil' = gil
    BY <1>1 DEF StoreHandle, poolVars, seenVars, Inv, Types
  <1>3. m_thread_running' \in [Jobs -> BOOLEAN] /\ m_handle' \in [Jobs -> BOOLEAN] /\ m_handle'[j]
    BY <1>1, <1>2 DEF Inv, Types
  <1>4. \A k \in LocalJobs : Run(k) # Run(j)
    BY TasksDiffer, KindsOfJobs
  <1>5. \A k \in RemoteJobs :
           /\ Run(k) = Run(j) => m_handle'[k] \/ "reacquire" \notin AfterHandle
           /\ Callbacks(k) = Run(j) /\ "reacquire" \in Left => k \in results'
    BY <1>1, <1>3, TasksDiffer
  <1>6. \A k \in Jobs : Run(k) # Run(j) =>
           m_handle'[k] = m_handle[k] /\ m_thread_running'[k] = m_thread_running[k]
    BY <1>2 DEF Inv, Types
  <1>7. /\ results \subseteq results' /\ gil' = gil
        /\ \A k \in RemoteJobs : Run(k) = Run(j) /\ "reacquire" \in Left => place[Run(j)] \in Left
    BY <1>1, <1>2
  <1> QED
    BY <1>1, <1>2, <1>3, <1>4, <1>5, <1>6, <1>7, TaskSteps

LEMMA LeaveKeeps ==
  ASSUME Inv, NEW j \in Jobs, Leave(j)
  PROVE  Inv'
  <1>1. Run(j) \in Tasks /\ "set" \in Places \ {"none"} /\ "set" # "store"
    BY TasksDiffer DEF Places
  <1>2. /\ place' = [place EXCEPT ![Run(j)] = "set"] /\ place[Run(j)] = "reacquire" /\ gil \in Tasks
        /\ pending' = pending /\ doing' = doing /\ reported' = reported /\ returned' = returned
        /\ m_handle' = m_handle /\ m_thread_running' = m_thread_running
        /\ results' = results
    BY <1>1 DEF Leave, poolVars, handleVars, seenVars
  <1>3. m_thread_running' \in [Jobs -> BOOLEAN] /\ m_handle' \in [Jobs -> BOOLEAN]
    BY <1>2 DEF Inv, Types
  <1>4. \A k \in LocalJobs : Run(k) = Run(j) =>
           /\ ~m_handle'[k] /\ "set" # "store"
           /\ "set" \in AfterRun \/ ~m_thread_running'[k] => k \in results'
    BY <1>1, <1>2 DEF Inv, LocalRuns, AfterRun
  <1>5. \A k \in RemoteJobs :
           /\ Run(k) = Run(j) => m_handle'[k] \/ "set" \notin AfterHandle
           /\ Callbacks(k) = Run(j) /\ "set" \in Left => k \in results'
    BY <1>2, TasksDiffer DEF Inv, RemoteRuns, AfterHandle
  <1>6. \A k \in Jobs : Run(k) # Run(j) =>
           m_handle'[k] = m_handle[k] /\ m_thread_running'[k] = m_thread_running[k]
    BY <1>2
  <1>7. results \subseteq results'
    BY <1>2
  <1> QED
    BY <1>1, <1>2, <1>3, <1>4, <1>5, <1>6, <1>7, TaskSteps

LEMMA SetValueKeeps ==
  ASSUME Inv, NEW t \in Tasks, SetValue(t)
  PROVE  Inv'
  <1>1. "ended" \in Places \ {"none"} /\ "ended" # "store"
    BY DEF Places
  <1>2. /\ place' = [place EXCEPT ![t] = "ended"] /\ place[t] = "set"
        /\ pending' = pending /\ doing' = doing /\ reported' = reported /\ returned' = returned
        /\ m_handle' = m_handle /\ m_thread_running' = m_thread_running
        /\ results' = results /\ gil' = gil
    BY DEF SetValue, Pool!Finish, handleVars, seenVars
  <1>3. m_thread_running' \in [Jobs -> BOOLEAN] /\ m_handle' \in [Jobs -> BOOLEAN]
    BY <1>2 DEF Inv, Types
  <1>4. \A k \in LocalJobs : Run(k) = t =>
           /\ ~m_handle'[k] /\ "ended" # "store"
           /\ "ended" \in AfterRun \/ ~m_thread_running'[k] => k \in results'
    BY <1>1, <1>2 DEF Inv, LocalRuns, AfterRun
  <1>5. \A k \in RemoteJobs :
           /\ Run(k) = t => m_handle'[k] \/ "ended" \notin AfterHandle
           /\ Callbacks(k) = t /\ "ended" \in Left => k \in results'
    BY <1>2 DEF Inv, RemoteRuns, AfterHandle, Left
  <1>6. \A k \in Jobs : Run(k) # t =>
           m_handle'[k] = m_handle[k] /\ m_thread_running'[k] = m_thread_running[k]
    BY <1>2
  <1>7. /\ results \subseteq results' /\ gil' = gil
        /\ \A k \in RemoteJobs : Run(k) = t /\ "ended" \in Left => place[t] \in Left
    BY <1>2 DEF Left
  <1> QED
    BY <1>1, <1>2, <1>3, <1>4, <1>5, <1>6, <1>7, TaskSteps

LEMMA RunCallbacksKeeps ==
  ASSUME Inv, NEW j \in RemoteJobs, RunCallbacks(j)
  PROVE  Inv'
  <1>1. Callbacks(j) \in Tasks /\ "set" \in Places \ {"none"}
    BY TasksDiffer DEF Places
  <1>2. /\ place' = [place EXCEPT ![Callbacks(j)] = "set"] /\ gil \in Tasks
        /\ pending' = pending /\ doing' = doing /\ reported' = reported /\ returned' = returned
        /\ m_handle' = m_handle /\ m_thread_running' = m_thread_running
        /\ results' = results \cup {j}
    BY <1>1 DEF RunCallbacks, poolVars, handleVars, seenVars
  <1>3. m_thread_running' \in [Jobs -> BOOLEAN] /\ m_handle' \in [Jobs -> BOOLEAN]
    BY <1>2 DEF Inv, Types
  <1>4. \A k \in Jobs : Run(k) # Callbacks(j)
    BY TasksDiffer
  <1>5. \A k \in LocalJobs : Run(k) # Callbacks(j)
    BY TasksDiffer
  <1>6. \A k \in RemoteJobs :
           /\ Run(k) = Callbacks(j) => m_handle'[k] \/ "set" \notin AfterHandle
           /\ Callbacks(k) = Callbacks(j) /\ "set" \in Left => k \in results'
    BY <1>2, TasksDiffer
  <1>7. results \subseteq results' /\ \A k \in Jobs : Run(k) # Callbacks(j) =>
           m_handle'[k] = m_handle[k] /\ m_thread_running'[k] = m_thread_running[k]
    BY <1>2
  <1> QED
    BY <1>1, <1>2, <1>3, <1>5, <1>6, <1>7, TaskSteps

-----------------------------------------------------------------------------
\* The calls of the clients.
LEMMA PostAsyncKeeps ==
  ASSUME Inv, NEW c \in Clients, NEW j \in Jobs, PostAsync(c, j)
  PROVE  Inv'
  <1>1. /\ Run(j) \in Tasks /\ "queued" \in Places /\ "queued" # "none" /\ "queued" # "store"
        /\ "queued" \notin AfterRun /\ "queued" \notin AfterHandle /\ "queued" \notin Left
    BY TasksDiffer DEF Places, AfterRun, AfterHandle, Left
  <1>2. pending' = Append(pending, Run(j)) /\ pending \in Seq(Tasks)
    BY DEF PostAsync, Pool!Accept, Inv, Types
  <1>3. pending' \in Seq(Tasks) /\ Len(pending') = Len(pending) + 1
        /\ \A i \in 1..Len(pending') : pending'[i] = IF i <= Len(pending) THEN pending[i] ELSE Run(j)
    BY <1>1, <1>2
  <1>4. \A i \in DOMAIN pending' : pending'[i] = Run(j) \/ \E k \in DOMAIN pending : pending'[i] = pending[k]
    BY <1>2, <1>3
  <1>5. /\ place' = [place EXCEPT ![Run(j)] = "queued"] /\ gil' = gil /\ doing' = doing
        /\ reported' = reported /\ returned' = returned /\ results' = results
        /\ m_handle' = m_handle /\ m_thread_running' = [m_thread_running EXCEPT ![j] = TRUE]
    BY DEF PostAsync, seenVars
  <1>6. /\ m_thread_running' \in [Jobs -> BOOLEAN] /\ m_handle' \in [Jobs -> BOOLEAN]
        /\ m_thread_running'[j] /\ ClientsSeeResults' /\ results \subseteq results'
    BY <1>5 DEF Inv, Types, ClientsSeeResults, LocalCompleteMeansResults, GetReturnsResults
  <1>7. \A k \in LocalJobs : Run(k) = Run(j) =>
           /\ ~m_handle'[k] /\ "queued" # "store"
           /\ "queued" \in AfterRun \/ ~m_thread_running'[k] => k \in results'
    BY <1>1, <1>5, <1>6, TasksDiffer DEF Inv, LocalRuns
  <1>8. \A k \in RemoteJobs :
           /\ Run(k) = Run(j) => m_handle'[k] \/ "queued" \notin AfterHandle
           /\ Callbacks(k) = Run(j) /\ "queued" \in Left => k \in results'
    BY <1>1
  <1>9. \A d \in Clients, k \in RemoteJobs :
           doing[d] = <<"future", k>> => gil' = d /\ (Run(k) = Run(j) => "queued" \notin Left)
    BY <1>1, <1>5 DEF Inv, Blocked
  <1>10. \A k \in Jobs : Run(k) # Run(j) =>
            m_handle'[k] = m_handle[k] /\ m_thread_running'[k] = m_thread_running[k]
    BY <1>5 DEF Inv, Types
  <1> QED
    BY <1>1, <1>3, <1>4, <1>5, <1>6, <1>7, <1>8, <1>9, <1>10, TaskMoves

\* What complete() and terminate() set off.
LEMMA CompleteMoves ==
  ASSUME Inv, NEW j \in Jobs, CompleteEffect(j), ClientsSeeResults',
         gil' = gil, doing' = doing, results' = results,
         m_handle' = m_handle, m_thread_running' = m_thread_running
  PROVE  Inv'
  <1>1. CASE m_handle[j]
    <2>1. j \in RemoteJobs /\ DoneEffect(j)
      BY <1>1, KindsOfJobs DEF Inv, LocalRuns, CompleteEffect
    <2> QED
      BY <2>1, DoneMoves
  <1>2. CASE ~m_handle[j]
    <2>1. pending' = pending /\ place' = place
      BY <1>2 DEF CompleteEffect, poolVars
    <2>2. doing' \in [Clients -> {Nobody} \cup ({"future", "poll"} \X Jobs)]
      BY DEF Inv, Types
    <2>3. \A c \in Clients, k \in RemoteJobs :
             doing'[c] = <<"future", k>> => gil' = c /\ place[Run(k)] \notin Left
      BY DEF Inv, Blocked
    <2> QED
      BY <2>1, <2>2, <2>3, PlacesStay
  <1> QED
    BY <1>1, <1>2

LEMMA CompleteKeeps ==
  ASSUME Inv, NEW c \in Clients, NEW j \in Jobs, Complete(c, j)
  PROVE  Inv'
  <1>1. /\ gil' = gil /\ doing' = doing /\ results' = results /\ returned' = returned
        /\ m_handle' = m_handle /\ m_thread_running' = m_thread_running
        /\ CompleteEffect(j) /\ Posted(j)
        /\ reported' = IF CompleteAnswer(j) THEN reported \cup {j} ELSE reported
    BY DEF Complete, handleVars
  <1>2. j \in LocalJobs /\ CompleteAnswer(j) => j \in results
    BY <1>1, ReportsHold
  <1>3. ClientsSeeResults'
    BY <1>1, <1>2 DEF Inv, ClientsSeeResults, LocalCompleteMeansResults, GetReturnsResults
  <1> QED
    BY <1>1, <1>3, CompleteMoves

LEMMA TerminateKeeps ==
  ASSUME Inv, NEW c \in Clients, NEW j \in Jobs, Terminate(c, j)
  PROVE  Inv'
  <1>1. /\ gil' = gil /\ doing' = doing /\ results' = results
        /\ m_handle' = m_handle /\ m_thread_running' = m_thread_running
        /\ CompleteEffect(j) /\ reported' = reported /\ returned' = returned
    BY DEF Terminate, handleVars, seenVars
  <1>2. ClientsSeeResults'
    BY <1>1 DEF Inv, ClientsSeeResults, LocalCompleteMeansResults, GetReturnsResults
  <1> QED
    BY <1>1, <1>2, CompleteMoves

\* A client that waits for the future of a Braket job began to before the
\* handle was stored, and its task needs the lock the client keeps.
LEMMA GetKeeps ==
  ASSUME Inv, NEW c \in Clients, NEW j \in Jobs, Get(c, j)
  PROVE  Inv'
  <1>1. /\ pending' = pending /\ place' = place /\ results' = results /\ gil' = gil /\ gil = c
        /\ m_handle' = m_handle /\ m_thread_running' = m_thread_running
        /\ reported' = reported /\ returned' = returned
        /\ doing' = [doing EXCEPT ![c] = <<IF m_handle[j] THEN "poll" ELSE "future", j>>]
    BY DEF Get, InPythonCode, poolVars, handleVars, seenVars
  <1>2. doing' \in [Clients -> {Nobody} \cup ({"future", "poll"} \X Jobs)]
    BY <1>1 DEF Inv, Types
  <1>3. ASSUME NEW d \in Clients, NEW k \in RemoteJobs, doing'[d] = <<"future", k>>
        PROVE  gil' = d /\ place[Run(k)] \notin Left
    <2>1. CASE d = c
      <3>1. k = j /\ ~m_handle[j]
        BY <1>1, <1>3, <2>1 DEF Inv, Types
      <3> QED
        BY <1>1, <2>1, <3>1 DEF Inv, RemoteRuns, AfterHandle, Left
    <2>2. CASE d # c
      <3>1. doing[d] = <<"future", k>>
        BY <1>1, <1>3, <2>2 DEF Inv, Types
      <3> QED
        BY <1>1, <3>1 DEF Inv, Blocked
    <2> QED
      BY <2>1, <2>2
  <1>4. ClientsSeeResults'
    BY <1>1 DEF Inv, ClientsSeeResults, LocalCompleteMeansResults, GetReturnsResults
  <1> QED
    BY <1>1, <1>2, <1>3, <1>4, PlacesStay

\* A call that returns.
LEMMA CallEnds ==
  ASSUME Inv, NEW c \in Clients, NEW j \in results,
         pending' = pending, place' = place, results' = results, gil' = gil,
         m_handle' = m_handle, m_thread_running' = m_thread_running, reported' = reported,
         doing' = [doing EXCEPT ![c] = Nobody], returned' = returned \cup {j}
  PROVE  Inv'
  <1>1. doing' \in [Clients -> {Nobody} \cup ({"future", "poll"} \X Jobs)]
    BY DEF Inv, Types
  <1>2. ASSUME NEW d \in Clients, NEW k \in RemoteJobs, doing'[d] = <<"future", k>>
        PROVE  gil' = d /\ place[Run(k)] \notin Left
    <2>1. k \in Jobs
      BY KindsOfJobs
    <2>2. <<"future", k>> # Nobody
      BY <2>1, JobAssumption
    <2>3. doing[d] = <<"future", k>>
      BY <1>2, <2>2 DEF Inv, Types
    <2> QED
      BY <2>3 DEF Inv, Blocked
  <1>3. ClientsSeeResults'
    BY DEF Inv, ClientsSeeResults, LocalCompleteMeansResults, GetReturnsResults
  <1> QED
    BY <1>1, <1>2, <1>3, PlacesStay

LEMMA FutureReadyKeeps ==
  ASSUME Inv, NEW c \in Clients, NEW j \in Jobs, FutureReady(c, j)
  PROVE  Inv'
  <1>1. /\ pending' = pending /\ place' = place /\ results' = results /\ gil' = gil
        /\ m_handle' = m_handle /\ m_thread_running' = m_thread_running /\ reported' = reported
        /\ doing' = [doing EXCEPT ![c] = Nobody] /\ returned' = returned \cup {j}
        /\ doing[c] = <<"future", j>> /\ place[Run(j)] = "ended"
    BY DEF FutureReady, poolVars, handleVars
  <1>2. j \in LocalJobs
    BY <1>1, KindsOfJobs DEF Inv, Blocked, Left
  <1>3. j \in results
    BY <1>1, <1>2 DEF Inv, LocalRuns, AfterRun
  <1> QED
    BY <1>1, <1>3, CallEnds

LEMMA PollKeeps ==
  ASSUME Inv, NEW c \in Clients, NEW j \in RemoteJobs, Poll(c, j)
  PROVE  Inv'
  <1>1. /\ results' = results /\ gil' = gil /\ reported' = reported /\ DoneEffect(j)
        /\ m_handle' = m_handle /\ m_thread_running' = m_thread_running
        /\ IF DoneAnswer(j)
           THEN doing' = [doing EXCEPT ![c] = Nobody] /\ returned' = returned \cup {j}
           ELSE doing' = doing /\ returned' = returned
    BY DEF Poll, handleVars
  <1>2. CASE DoneAnswer(j)
    <2>1. place[Callbacks(j)] = "ended"
      BY <1>2 DEF DoneAnswer
    <2>2. pending' = pending /\ place' = place
      BY <1>1, <2>1 DEF DoneEffect, poolVars
    <2>3. j \in results
      BY <2>1 DEF Inv, RemoteRuns, Left
    <2> QED
      BY <1>1, <1>2, <2>2, <2>3, CallEnds
  <1>3. CASE ~DoneAnswer(j)
    <2>1. ClientsSeeResults'
      BY <1>1, <1>3 DEF Inv, ClientsSeeResults, LocalCompleteMeansResults, GetReturnsResults
    <2> QED
      BY <1>1, <1>3, <2>1, DoneMoves
  <1> QED
    BY <1>2, <1>3

-----------------------------------------------------------------------------
LEMMA NextKeeps == Inv /\ [Next]_vars => Inv'
  <1> SUFFICES ASSUME Inv, [Next]_vars PROVE Inv'
    OBVIOUS
  <1>1. ASSUME NEW p \in Clients \cup Tasks, Acquire(p) PROVE Inv'
    <2>1. /\ pending' = pending /\ place' = place /\ results' = results /\ doing' = doing
          /\ m_handle' = m_handle /\ m_thread_running' = m_thread_running
          /\ reported' = reported /\ returned' = returned /\ gil = Nobody
      BY <1>1 DEF Acquire, poolVars, handleVars, seenVars
    <2> QED
      BY <2>1, NobodyBlocks, LockMoves
  <1>2. ASSUME NEW p \in Clients \cup Tasks, Yield(p) PROVE Inv'
    <2>1. /\ pending' = pending /\ place' = place /\ results' = results /\ doing' = doing
          /\ m_handle' = m_handle /\ m_thread_running' = m_thread_running
          /\ reported' = reported /\ returned' = returned /\ gil = p
      BY <1>2 DEF Yield, poolVars, handleVars, seenVars
    <2>2. CASE p \in Tasks
      BY <2>1, <2>2, NobodyBlocks, LockMoves
    <2>3. CASE p \in Clients
      <3>1. p \notin Tasks
        BY <2>3, JobAssumption
      <3>2. doing[p] \notin {"future"} \X Jobs
        BY <1>2, <2>3, <3>1, TasksDiffer, KindsOfJobs DEF Yield, InPython, WantsGil
      <3>3. \A d \in Clients, j \in RemoteJobs : doing[d] # <<"future", j>>
        BY <2>1, <3>2, KindsOfJobs DEF Inv, Blocked
      <3> QED
        BY <2>1, <3>3, LockMoves
    <2> QED
      BY <2>2, <2>3
  <1>3. ASSUME Start PROVE Inv'
    BY <1>3, StartKeeps
  <1>4. ASSUME Retire PROVE Inv'
    <2>1. /\ pending' = pending /\ place' = place /\ results' = results /\ doing' = doing /\ gil' = gil
          /\ m_handle' = m_handle /\ m_thread_running' = m_thread_running
          /\ reported' = reported /\ returned' = returned
      BY <1>4 DEF Retire, Pool!Retire, handleVars, seenVars
    <2> QED
      BY <2>1, LockMoves
  <1>5. ASSUME NEW j \in Jobs, RunSession(j) PROVE Inv'
    BY <1>5, RunSessionKeeps
  <1>6. ASSUME NEW j \in Jobs, SessionThrows(j) PROVE Inv'
    <2>1. /\ pending' = pending /\ place' = place /\ results' = results /\ doing' = doing /\ gil' = gil
          /\ m_handle' = m_handle /\ m_thread_running' = m_thread_running
          /\ reported' = reported /\ returned' = returned
      BY <1>6 DEF SessionThrows, handleVars, seenVars
    <2> QED
      BY <2>1, LockMoves
  <1>7. ASSUME NEW j \in Jobs, ClearFlag(j) PROVE Inv'
    BY <1>7, ClearFlagKeeps
  <1>8. ASSUME NEW j \in RemoteJobs, StoreHandle(j) PROVE Inv'
    BY <1>8, StoreHandleKeeps
  <1>9. ASSUME NEW j \in Jobs, Leave(j) PROVE Inv'
    BY <1>9, LeaveKeeps
  <1>10. ASSUME NEW t \in Tasks, SetValue(t) PROVE Inv'
    BY <1>10, SetValueKeeps
  <1>11. ASSUME NEW j \in RemoteJobs, RunCallbacks(j) PROVE Inv'
    BY <1>11, RunCallbacksKeeps
  <1>12. ASSUME NEW j \in RemoteJobs, RemoteEnds(j) PROVE Inv'
    <2>1. /\ pending' = pending /\ place' = place /\ results' = results /\ doing' = doing /\ gil' = gil
          /\ m_handle' = m_handle /\ m_thread_running' = m_thread_running
          /\ reported' = reported /\ returned' = returned
      BY <1>12 DEF RemoteEnds, poolVars, handleVars, seenVars
    <2> QED
      BY <2>1, LockMoves
  <1>13. ASSUME NEW c \in Clients, NEW j \in Jobs, PostAsync(c, j) PROVE Inv'
    BY <1>13, PostAsyncKeeps
  <1>14. ASSUME NEW c \in Clients, NEW n \in PoolSizes, SetNumThreads(c, n) PROVE Inv'
    <2>1. /\ pending' = pending /\ place' = place /\ results' = results /\ doing' = doing /\ gil' = gil
          /\ m_handle' = m_handle /\ m_thread_running' = m_thread_running
          /\ reported' = reported /\ returned' = returned
      BY <1>14 DEF SetNumThreads, Pool!Resize, handleVars, seenVars
    <2> QED
      BY <2>1, LockMoves
  <1>15. ASSUME NEW c \in Clients, NEW j \in Jobs, Complete(c, j) PROVE Inv'
    BY <1>15, CompleteKeeps
  <1>16. ASSUME NEW c \in Clients, NEW j \in Jobs, Get(c, j) PROVE Inv'
    BY <1>16, GetKeeps
  <1>17. ASSUME NEW c \in Clients, NEW j \in Jobs, FutureReady(c, j) PROVE Inv'
    BY <1>17, FutureReadyKeeps
  <1>18. ASSUME NEW c \in Clients, NEW j \in RemoteJobs, Poll(c, j) PROVE Inv'
    BY <1>18, PollKeeps
  <1>19. ASSUME NEW c \in Clients, NEW j \in Jobs, Terminate(c, j) PROVE Inv'
    BY <1>19, TerminateKeeps
  <1>20. CASE UNCHANGED vars
    <2>1. /\ pending' = pending /\ place' = place /\ results' = results /\ doing' = doing /\ gil' = gil
          /\ m_handle' = m_handle /\ m_thread_running' = m_thread_running
          /\ reported' = reported /\ returned' = returned
      BY <1>20 DEF vars, poolVars, handleVars, seenVars
    <2> QED
      BY <2>1, LockMoves
  <1> QED
    BY <1>1, <1>2, <1>3, <1>4, <1>5, <1>6, <1>7, <1>8, <1>9, <1>10, <1>11, <1>12, <1>13,
       <1>14, <1>15, <1>16, <1>17, <1>18, <1>19, <1>20 DEF Next

\* Behind it: which task of a job has got how far, what its fields and its
\* session hold by then, and who keeps the lock.
THEOREM JobInvariance == Spec => []Inv
  <1> QED
    BY InitInv, NextKeeps, PTL DEF Spec

\* A local job a client was told is complete, and any job whose get() has
\* returned, has its results: for any jobs and any number of Python threads
\* that poll, wait, terminate and resize the pool, whatever fails, and
\* whether or not get() is called while the task is still in the pool
\* (async_job_handle.hpp, py_job_handle.cpp).
THEOREM ClientsAreToldTheTruth == Spec => []ClientsSeeResults
  <1>1. Inv => ClientsSeeResults
    BY DEF Inv
  <1> QED
    BY <1>1, JobInvariance, PTL

-----------------------------------------------------------------------------
(* The processes of MPI.                                                   *)

(* The place of a tag in Outputs.                                          *)
Place == [t \in Tags |-> CASE t = "shots" -> 1 [] t = "results" -> 2 [] t = "native" -> 3
                           [] t = "counts" -> 4 [] t = "probabilities" -> 5
                           [] OTHER -> 6]

HasSent(w, t, r) ==
    /\ t \in Synced(r)
    /\ \/ run[w] > r
       \/ run[w] = r /\ pos[w] > Place[t]
       \/ run[w] = r /\ pos[w] = Place[t] /\ sending[w]

HasReceived(w, t, r) ==
    /\ t \in Synced(r)
    /\ \/ run[0] > r
       \/ run[0] = r /\ pos[0] > Place[t]
       \/ run[0] = r /\ pos[0] = Place[t] /\ from > w

(* Each channel is in the order of the runs, and holds only what was sent. *)
InOrder ==
    \A w \in Workers, t \in Tags : \A i, j \in DOMAIN channel[w][t] :
        i < j => channel[w][t][i] < channel[w][t][j]

SentInv ==
    \A w \in Workers, t \in Tags, r \in Runs : InChannel(w, t, r) => HasSent(w, t, r)

(* Of the runs before anything went wrong, it holds exactly the messages   *)
(* that were sent and not yet received.                                    *)
InTransit ==
    \A w \in Workers, t \in Tags, r \in Runs :
        Undisturbed(r) => (InChannel(w, t, r) <=> HasSent(w, t, r) /\ ~HasReceived(w, t, r))

ReceivedWasSent ==
    \A w \in Workers, t \in Tags, r \in Runs :
        Undisturbed(r) /\ HasReceived(w, t, r) => HasSent(w, t, r)

SendingInv ==
    \A w \in Workers : sending[w] => Syncing(w) /\ Current(w) \in Synced(run[w])

FromInv == (Syncing(0) /\ Current(0) \notin Synced(run[0])) => from = 1

RunInv == \A p \in Processes : InRun(p) \/ pos[p] = 0

MergedInv ==
    InRun(0) /\ pos[0] > 0 /\ Undisturbed(run[0]) =>
        \A t \in Tags : merged[t] =
            {w \in Workers : HasReceived(w, t, run[0])} \X {run[0]}

(* The shots of the supervisor and of the workers before k.                *)
SharesBefore(sn, k) ==
    k * (sn \div N) + (IF k - 1 <= (sn % N) THEN k - 1 ELSE (sn % N))

(* The shots these processes are told to run: one at least each.           *)
ConfiguredBefore(sn, k) == IF sn < N THEN k ELSE SharesBefore(sn, k)

NothingMissing(r) == \A p \in Processes : plan[r].missing[p] = 0

TotalInv ==
    InRun(0) /\ Undisturbed(run[0]) /\ NothingMissing(run[0]) =>
        /\ pos[0] = 1 => total = ConfiguredBefore(plan[run[0]].sn, 1)
        /\ pos[0] = 2 => total = ConfiguredBefore(plan[run[0]].sn, from)
        /\ pos[0] > 2 => total = ConfiguredBefore(plan[run[0]].sn, N)

IInv == TypeOK /\ InOrder /\ SentInv /\ InTransit /\ ReceivedWasSent /\ SendingInv
            /\ FromInv /\ RunInv /\ MergedInv /\ TotalInv

---------------------------------------------------------------------------
(* Lemmas about the data.                                                  *)

(* Place is the inverse of Outputs.                                        *)
LEMMA PlacesOfTags ==
    /\ \A i \in Positions : Outputs[i] \in Tags /\ Place[Outputs[i]] = i
    /\ \A t \in Tags : Place[t] \in Positions /\ Outputs[Place[t]] = t
BY DEF Positions, Outputs, Tags, Place

Increasing(s) == \A i, j \in DOMAIN s : i < j => s[i] < s[j]

(* Sending the latest run keeps a channel in order.                        *)
LEMMA AppendIncreasing ==
    ASSUME NEW s \in Seq(Nat), NEW r \in Nat, Increasing(s),
           \A i \in DOMAIN s : s[i] < r
    PROVE  /\ Increasing(Append(s, r))
           /\ \A q : (\E i \in DOMAIN Append(s, r) : Append(s, r)[i] = q) <=>
                     (q = r \/ \E i \in DOMAIN s : s[i] = q)
<1>1. /\ Append(s, r) \in Seq(Nat) /\ Len(Append(s, r)) = Len(s) + 1
      /\ \A i \in 1..Len(s) : Append(s, r)[i] = s[i]
      /\ Append(s, r)[Len(s) + 1] = r
    OBVIOUS
<1>2. DOMAIN Append(s, r) = 1..(Len(s) + 1) /\ DOMAIN s = 1..Len(s) /\ Len(s) \in Nat
    BY <1>1
<1>3. Increasing(Append(s, r))
    <2> SUFFICES ASSUME NEW i \in 1..(Len(s) + 1), NEW j \in 1..(Len(s) + 1), i < j
                 PROVE  Append(s, r)[i] < Append(s, r)[j]
        BY <1>2 DEF Increasing
    <2>1. i \in 1..Len(s) /\ Append(s, r)[i] = s[i]
        BY <1>1, <1>2
    <2>2. CASE j = Len(s) + 1
        BY <1>1, <1>2, <2>1, <2>2
    <2>3. CASE j # Len(s) + 1
        <3>1. j \in 1..Len(s) /\ Append(s, r)[j] = s[j]
            BY <1>1, <1>2, <2>3
        <3> QED
            BY <1>2, <2>1, <3>1 DEF Increasing
    <2> QED
        BY <2>2, <2>3
<1>4. ASSUME NEW q
      PROVE  (\E i \in DOMAIN Append(s, r) : Append(s, r)[i] = q) <=>
             (q = r \/ \E i \in DOMAIN s : s[i] = q)
    <2>1. ASSUME NEW i \in 1..(Len(s) + 1), Append(s, r)[i] = q
          PROVE  q = r \/ \E k \in 1..Len(s) : s[k] = q
        <3>1. CASE i = Len(s) + 1
            BY <1>1, <2>1, <3>1
        <3>2. CASE i # Len(s) + 1
            <4>1. i \in 1..Len(s)
                BY <1>2, <3>2
            <4> QED
                BY <1>1, <2>1, <4>1
        <3> QED
            BY <3>1, <3>2
    <2>2. ASSUME q = r PROVE \E i \in 1..(Len(s) + 1) : Append(s, r)[i] = q
        <3>1. Len(s) + 1 \in 1..(Len(s) + 1)
            BY <1>2
        <3> QED
            BY <1>1, <2>2, <3>1
    <2>3. ASSUME NEW k \in 1..Len(s), s[k] = q
          PROVE  \E i \in 1..(Len(s) + 1) : Append(s, r)[i] = q
        <3>1. k \in 1..(Len(s) + 1)
            BY <1>2
        <3> QED
            BY <1>1, <2>3, <3>1
    <2> QED
        BY <1>2, <2>1, <2>2, <2>3
<1> QED
    BY <1>3, <1>4

(* Receiving the head removes that run and no other.                       *)
LEMMA TailIncreasing ==
    ASSUME NEW s \in Seq(Nat), s # <<>>, Increasing(s)
    PROVE  /\ Increasing(Tail(s))
           /\ \A q : (\E i \in DOMAIN Tail(s) : Tail(s)[i] = q) <=>
                     (q # Head(s) /\ \E i \in DOMAIN s : s[i] = q)
<1>1. /\ Tail(s) \in Seq(Nat) /\ Len(Tail(s)) = Len(s) - 1 /\ Head(s) = s[1]
      /\ \A i \in 1..(Len(s) - 1) : Tail(s)[i] = s[i + 1]
      /\ Len(s) \in Nat /\ Len(s) > 0
    OBVIOUS
<1>2. DOMAIN Tail(s) = 1..(Len(s) - 1) /\ DOMAIN s = 1..Len(s)
    BY <1>1
<1>3. \A i \in 1..Len(s) : s[i] \in Nat
    BY <1>2
<1>4. Increasing(Tail(s))
    <2> SUFFICES ASSUME NEW i \in 1..(Len(s) - 1), NEW j \in 1..(Len(s) - 1), i < j
                 PROVE  Tail(s)[i] < Tail(s)[j]
        BY <1>2 DEF Increasing
    <2>1. i + 1 \in 1..Len(s) /\ j + 1 \in 1..Len(s) /\ i + 1 < j + 1
        BY <1>1
    <2> QED
        BY <1>1, <1>2, <2>1 DEF Increasing
<1>5. ASSUME NEW q
      PROVE  (\E i \in DOMAIN Tail(s) : Tail(s)[i] = q) <=>
             (q # Head(s) /\ \E i \in DOMAIN s : s[i] = q)
    <2>1. ASSUME NEW i \in 1..(Len(s) - 1), Tail(s)[i] = q
          PROVE  q # Head(s) /\ \E k \in 1..Len(s) : s[k] = q
        <3>1. i + 1 \in 1..Len(s) /\ 1 \in 1..Len(s) /\ 1 < i + 1
            BY <1>1
        <3>2. s[1] < s[i + 1]
            BY <1>2, <3>1 DEF Increasing
        <3> QED
            BY <1>1, <1>3, <2>1, <3>1, <3>2
    <2>2. ASSUME NEW k \in 1..Len(s), s[k] = q, q # Head(s)
          PROVE  \E i \in 1..(Len(s) - 1) : Tail(s)[i] = q
        <3>1. k # 1
            BY <1>1, <2>2
        <3>2. k - 1 \in 1..(Len(s) - 1) /\ (k - 1) + 1 = k
            BY <1>1, <3>1
        <3> QED
            BY <1>1, <2>2, <3>2
    <2> QED
        BY <1>2, <2>1, <2>2
<1> QED
    BY <1>4, <1>5

(* The shares of the processes are all the shots.                          *)
LEMMA Shares ==
    ASSUME NEW sn \in Nat
    PROVE  /\ \A p \in Processes : Shots(sn, p) \in Nat
           /\ SharesBefore(sn, 1) = Shots(sn, 0)
           /\ \A k \in Workers : SharesBefore(sn, k + 1) = SharesBefore(sn, k) + Shots(sn, k)
           /\ \A k \in 1..N : SharesBefore(sn, k) \in Nat
           /\ SharesBefore(sn, N) = sn
<1>1. /\ sn \div N \in Nat /\ sn % N \in 0..(N - 1)
      /\ sn = N * (sn \div N) + (sn % N)
    BY MpiAssumption
<1>2. \A p \in Processes : Shots(sn, p) \in Nat
    BY <1>1, MpiAssumption DEF Shots, Processes
<1>3. SharesBefore(sn, 1) = Shots(sn, 0)
    BY <1>1, MpiAssumption DEF Shots, SharesBefore
<1>4. ASSUME NEW k \in Workers
      PROVE  SharesBefore(sn, k + 1) = SharesBefore(sn, k) + Shots(sn, k)
    <2>1. (k + 1) * (sn \div N) = k * (sn \div N) + (sn \div N)
        BY <1>1 DEF Workers
    <2>2. k * (sn \div N) \in Nat
        BY <1>1 DEF Workers
    <2> QED
        BY <1>1, <2>1, <2>2, MpiAssumption DEF Shots, SharesBefore, Workers
<1>5. ASSUME NEW k \in 1..N PROVE SharesBefore(sn, k) \in Nat
    <2>1. k * (sn \div N) \in Nat
        BY <1>1
    <2> QED
        BY <1>1, <2>1, MpiAssumption DEF SharesBefore
<1>6. SharesBefore(sn, N) = sn
    BY <1>1, MpiAssumption DEF SharesBefore
<1> QED
    BY <1>2, <1>3, <1>4, <1>5, <1>6

(* So are those of what they are told to run, if there are enough.         *)
LEMMA ConfiguredShares ==
    ASSUME NEW sn \in Nat
    PROVE  /\ \A p \in Processes : Configured(sn, p) \in Nat
           /\ ConfiguredBefore(sn, 1) = Configured(sn, 0)
           /\ \A k \in Workers :
                  ConfiguredBefore(sn, k + 1) = ConfiguredBefore(sn, k) + Configured(sn, k)
           /\ ConfiguredBefore(sn, N) = IF sn < N THEN N ELSE sn
<1>1. N \in Nat /\ N > 1 /\ 0 \in Processes /\ Workers \subseteq Processes
    BY MpiAssumption DEF Workers, Processes
<1>2. \A p \in Processes : Configured(sn, p) \in Nat
    BY Shares DEF Configured
<1>3. CASE sn < N
    <2>1. sn \div N = 0 /\ sn % N = sn
        BY <1>1, <1>3
    <2>2. \A p \in Processes : Configured(sn, p) = 1
        BY <1>1, <1>3, <2>1 DEF Configured, Shots, Processes
    <2> QED
        BY <1>1, <1>2, <1>3, <2>2 DEF ConfiguredBefore
<1>4. CASE ~(sn < N)
    <2>1. sn \div N \in Nat /\ sn \div N > 0
        BY <1>1, <1>4
    <2>2. \A p \in Processes : Shots(sn, p) # 0
        BY <2>1 DEF Shots
    <2>3. \A p \in Processes : Configured(sn, p) = Shots(sn, p)
        BY <2>2 DEF Configured
    <2> QED
        BY <1>1, <1>2, <1>4, <2>3, Shares DEF ConfiguredBefore
<1> QED
    BY <1>3, <1>4

---------------------------------------------------------------------------
(* The plan.                                                               *)

(* Recorded shots are a number, and the messages of an undisturbed run     *)
(* have elements.                                                          *)
LEMMA PlanFacts ==
    ASSUME TypeOK, NEW r \in Runs
    PROVE  /\ Synced(r) \subseteq Tags /\ plan[r].sn \in Nat
           /\ \A p \in Processes : Recorded(p, r) \in Nat
           /\ Undisturbed(r) =>
                  /\ "native" \notin Synced(r) /\ ~plan[r].fragile
                  /\ \A w \in Workers, o \in Synced(r) : ~NoElements(w, r, o)
                  /\ NothingMissing(r) =>
                         \A p \in Processes : Recorded(p, r) = Configured(plan[r].sn, p)
<1>1. plan[r] \in Settings /\ plan[r] \in Setting
    BY MpiAssumption DEF TypeOK
<1>2. /\ plan[r].sn \in Nat /\ plan[r].missing \in [Processes -> Nat]
      /\ plan[r].optional \subseteq {"native", "counts", "probabilities", "gradients"}
    BY <1>1 DEF Setting
<1>3. Synced(r) \subseteq Tags
    BY <1>2 DEF Synced, Tags
<1>4. ASSUME NEW p \in Processes PROVE Recorded(p, r) \in Nat
    <2>1. Configured(plan[r].sn, p) \in Nat /\ plan[r].missing[p] \in Nat
        BY <1>2, ConfiguredShares
    <2> QED
        BY <2>1 DEF Recorded
<1>5. ASSUME Undisturbed(r)
      PROVE  /\ "native" \notin Synced(r) /\ ~plan[r].fragile
             /\ \A w \in Workers, o \in Synced(r) : ~NoElements(w, r, o)
             /\ NothingMissing(r) =>
                    \A p \in Processes : Recorded(p, r) = Configured(plan[r].sn, p)
    <2>1. Faultless(r)
        BY <1>5 DEF Undisturbed, Runs
    <2>2. /\ "native" \notin Synced(r) /\ ~plan[r].fragile
          /\ \A w \in Workers, o \in Synced(r) : ~NoElements(w, r, o)
        BY <2>1 DEF Faultless, Synced
    <2>3. plan[r].executes
        <3>1. 1 \in Workers /\ "results" \in Synced(r)
            BY MpiAssumption DEF Workers, Synced
        <3>2. Recorded(1, r) # 0
            BY <2>2, <3>1 DEF NoElements
        <3> QED
            BY <3>2 DEF Recorded
    <2>4. ASSUME NothingMissing(r), NEW p \in Processes
          PROVE  Recorded(p, r) = Configured(plan[r].sn, p)
        <3>1. Configured(plan[r].sn, p) \in Nat /\ plan[r].missing[p] = 0
            BY <1>2, <2>4, ConfiguredShares DEF NothingMissing
        <3> QED
            BY <2>3, <3>1 DEF Recorded
    <2> QED
        BY <2>2, <2>4
<1> QED
    BY <1>2, <1>3, <1>4, <1>5

(* What goes wrong in a run leaves the runs before it undisturbed.         *)
LEMMA EarlierRuns ==
    ASSUME NEW q \in Runs, NEW r \in Runs, Undisturbed(r), q <= r
    PROVE  Undisturbed(q)
BY DEF Undisturbed, Runs

LEMMA SamePlan ==
    ASSUME plan' = plan
    PROVE  /\ \A r \in Runs : (Undisturbed(r)' <=> Undisturbed(r)) /\ Synced(r)' = Synced(r)
           /\ run'[0] = run[0] => (Undisturbed(run[0])' <=> Undisturbed(run[0]))
           /\ run'[0] = run[0] => (NothingMissing(run[0])' <=> NothingMissing(run[0]))
<1>1. \A r : Synced(r)' = Synced(r) /\ (Faultless(r)' <=> Faultless(r))
    BY DEF Faultless, NoElements, Recorded, Synced
<1>2. \A r : Undisturbed(r)' <=> Undisturbed(r)
    BY <1>1 DEF Undisturbed
<1>3. run'[0] = run[0] => (Undisturbed(run[0])' <=> Undisturbed(run[0]))
    BY <1>1 DEF Undisturbed
<1>4. run'[0] = run[0] => (NothingMissing(run[0])' <=> NothingMissing(run[0]))
    BY DEF NothingMissing
<1> QED
    BY <1>1, <1>2, <1>3, <1>4

(* The message the supervisor finds is the one it waits for.               *)
LEMMA HeadIsThisRun ==
    ASSUME IInv, Waiting, Undisturbed(run[0]), Probed # <<>>
    PROVE  /\ Current(0) \in Tags /\ Place[Current(0)] = pos[0] /\ run[0] \in Runs
           /\ ProbedTag(Current(0)) = Current(0)
           /\ channel[from][Current(0)] \in Seq(Nat)
           /\ Increasing(channel[from][Current(0)])
           /\ Head(channel[from][Current(0)]) = run[0]
           /\ HasSent(from, Current(0), run[0])
           /\ ~NoElements(from, run[0], Current(0))
<1> DEFINE o == Current(0)
           ch == channel[from][o]
<1>1. run[0] \in Runs /\ pos[0] \in Positions /\ o \in Synced(run[0]) /\ from \in Workers
    BY DEF Waiting, Syncing, InRun
<1>2. o \in Tags /\ o # "native" /\ ~NoElements(from, run[0], o)
    BY <1>1, PlanFacts DEF IInv
<1>3. ProbedTag(o) = o
    BY <1>2 DEF ProbedTag
<1>4. Place[o] = pos[0]
    BY <1>1, PlacesOfTags DEF Current
<1>5. ch \in Seq(Runs) /\ ch # <<>>
    BY <1>1, <1>2, <1>3 DEF IInv, TypeOK, Probed
<1>6. Runs \subseteq Nat
    BY MpiAssumption DEF Runs
<1>7. ch \in Seq(Nat)
    <2> HIDE DEF ch
    <2>1. DOMAIN ch = 1 .. Len(ch) /\ Len(ch) \in Nat /\ \A i \in 1 .. Len(ch) : ch[i] \in Runs
        BY ONLY <1>5
    <2>2. \A i \in 1 .. Len(ch) : ch[i] \in Nat
        BY ONLY <1>6, <2>1
    <2> QED
        BY ONLY <1>5, <2>1, <2>2
<1>8. Increasing(ch)
    BY <1>1, <1>2 DEF IInv, InOrder, Increasing
<1>9. Len(ch) > 0 /\ Head(ch) = ch[1] /\ 1 \in DOMAIN ch /\ ch[1] \in Runs
      /\ \A i \in DOMAIN ch : i # 1 => 1 < i
    BY <1>5
<1>15. run[0] \in Nat /\ Head(ch) \in Nat /\ ch[1] = Head(ch)
    BY <1>1, <1>6, <1>9
<1>10. InChannel(from, o, Head(ch))
    BY <1>9 DEF InChannel
<1>11. HasSent(from, o, Head(ch))
    BY <1>1, <1>2, <1>9, <1>10 DEF IInv, SentInv
<1>12. from \in Processes /\ run[from] \in Nat
    BY <1>1, <1>6, MpiAssumption DEF IInv, TypeOK, Workers, Processes
<1>13. Head(ch) >= run[0]
    <2> SUFFICES ASSUME Head(ch) < run[0] PROVE FALSE
        BY <1>15
    <2>1. Undisturbed(Head(ch))
        BY <1>1, <1>9, <1>15, EarlierRuns
    <2>2. HasReceived(from, o, Head(ch))
        BY <1>11, <1>15 DEF HasSent, HasReceived
    <2> QED
        BY <1>1, <1>2, <1>9, <1>10, <2>1, <2>2 DEF IInv, InTransit
<1>14. Head(ch) = run[0]
    <2> SUFFICES ASSUME Head(ch) > run[0] PROVE FALSE
        BY <1>15, <1>13
    <2>1. run[from] > run[0]
        BY <1>11, <1>12, <1>15 DEF HasSent
    <2>2. HasSent(from, o, run[0])
        BY <1>1, <2>1 DEF HasSent
    <2>3. ~HasReceived(from, o, run[0])
        BY <1>1, <1>4, <1>15, MpiAssumption DEF HasReceived, Positions, Workers
    <2>4. InChannel(from, o, run[0])
        BY <1>1, <1>2, <2>2, <2>3 DEF IInv, InTransit
    <2>5. PICK i \in DOMAIN ch : ch[i] = run[0]
        BY <2>4 DEF InChannel
    <2>6. i # 1 /\ 1 < i
        BY <1>9, <1>15, <2>5
    <2>7. ch[1] < ch[i]
        BY <1>8, <1>9, <2>6 DEF Increasing
    <2> QED
        BY <1>15, <2>5, <2>7
<1> QED
    BY <1>1, <1>2, <1>3, <1>4, <1>7, <1>8, <1>11, <1>14

---------------------------------------------------------------------------
(* One lemma per action.                                                   *)

(* Workers are processes, and none of them is the supervisor.              *)
LEMMA WorkerFacts ==
    /\ 0 \in Processes /\ Runs \subseteq Nat /\ 0 \notin Workers
    /\ \A w \in Workers : w \in Processes /\ w \in Nat /\ w > 0 /\ w + 1 \in 1..N
BY MpiAssumption DEF Workers, Processes, Runs

(* Steps that neither send nor receive a message of an undisturbed run.    *)
LEMMA NothingMoves ==
    ASSUME IInv, channel' = channel, plan' = plan,
           \A w \in Workers, t \in Tags, r \in Runs :
               /\ HasSent(w, t, r) => HasSent(w, t, r)'
               /\ Undisturbed(r) => /\ HasSent(w, t, r)' <=> HasSent(w, t, r)
                                    /\ HasReceived(w, t, r)' <=> HasReceived(w, t, r)
    PROVE  InOrder' /\ SentInv' /\ InTransit' /\ ReceivedWasSent'
<1>1. InOrder'
    BY DEF IInv, InOrder
<1>2. \A w \in Workers, t \in Tags, r \in Runs : InChannel(w, t, r)' <=> InChannel(w, t, r)
    BY DEF InChannel
<1>3. SentInv'
    BY <1>2 DEF IInv, SentInv
<1>4. InTransit'
    BY <1>2, SamePlan DEF IInv, InTransit
<1>5. ReceivedWasSent'
    BY SamePlan DEF IInv, ReceivedWasSent
<1> QED
    BY <1>1, <1>3, <1>4, <1>5

LEMMA ExecutePreserves ==
    ASSUME IInv, NEW p \in Processes, Execute(p)
    PROVE  IInv'
<1> USE WorkerFacts
<1>1. /\ TypeOK /\ run[p] \in Runs /\ pos[p] = 0
      /\ pos' = [pos EXCEPT ![p] = 1]
      /\ plan' = plan /\ run' = run /\ sending' = sending /\ channel' = channel
      /\ p # 0 => from' = from /\ merged' = merged /\ total' = total
      /\ p = 0 => from' = 1 /\ merged' = [t \in Tags |-> {}] /\ total' = Recorded(0, run[0])
    BY DEF Execute, IInv, InRun, supervisorVars
<1>2. \A q \in Processes : pos'[q] = IF q = p THEN 1 ELSE pos[q]
    BY <1>1 DEF TypeOK
<1>3. p = 0 => /\ total' \in Nat
               /\ Undisturbed(run[0]) /\ NothingMissing(run[0]) =>
                      total' = ConfiguredBefore(plan[run[0]].sn, 1)
    BY <1>1, PlanFacts, ConfiguredShares
<1>13. run'[0] = run[0] /\ (Undisturbed(run[0])' <=> Undisturbed(run[0]))
       /\ (NothingMissing(run[0])' <=> NothingMissing(run[0]))
    BY <1>1, SamePlan
<1>4. TypeOK'
    <2>1. from' \in 1..N /\ total' \in Nat /\ merged' \in [Tags -> SUBSET (Workers \X Runs)]
        BY <1>1, <1>3, MpiAssumption DEF TypeOK
    <2>2. pos' \in [Processes -> 0..7]
        BY <1>1 DEF TypeOK
    <2> QED
        BY <1>1, <2>1, <2>2 DEF TypeOK
<1>5. p \in Workers => sending[p] = FALSE
    <2>1. ~Syncing(p)
        BY <1>1 DEF Syncing, Positions
    <2> QED
        BY <1>1, <2>1 DEF IInv, SendingInv, TypeOK
<1>6. ASSUME NEW w \in Workers, NEW t \in Tags, NEW r \in Runs
      PROVE  /\ HasSent(w, t, r)' <=> HasSent(w, t, r)
             /\ HasReceived(w, t, r)' <=> HasReceived(w, t, r)
    <2>1. Place[t] \in Positions /\ Synced(r)' = Synced(r)
        BY <1>1, PlacesOfTags DEF Synced
    <2>2. HasSent(w, t, r)' <=> HasSent(w, t, r)
        BY <1>1, <1>2, <1>5, <2>1 DEF HasSent, Positions
    <2>3. HasReceived(w, t, r)' <=> HasReceived(w, t, r)
        BY <1>1, <1>2, <2>1 DEF HasReceived, Positions
    <2> QED
        BY <2>2, <2>3
<1>7. InOrder' /\ SentInv' /\ InTransit' /\ ReceivedWasSent'
    BY <1>1, <1>6, NothingMoves DEF IInv
<1>8. SendingInv'
    BY <1>1, <1>2, <1>5 DEF IInv, SendingInv, Syncing, Current, InRun, Synced
<1>9. FromInv'
    BY <1>1, <1>2 DEF IInv, FromInv, Syncing, Current, InRun, Synced
<1>10. RunInv'
    BY <1>1, <1>2 DEF IInv, RunInv, InRun
<1>11. MergedInv'
    <2>1. CASE p # 0
        BY <1>1, <1>2, <1>6, <1>13, <2>1 DEF IInv, MergedInv, InRun
    <2>2. CASE p = 0
        <3>1. ASSUME NEW t \in Tags, NEW w \in Workers PROVE ~HasReceived(w, t, run[0])'
            <4>1. Place[t] \in 1..6
                BY PlacesOfTags DEF Positions
            <4>2. run'[0] = run[0] /\ run[0] \in Nat /\ pos'[0] = 1 /\ from' = 1
                BY <1>1, <1>2, <2>2
            <4> QED
                BY <4>1, <4>2 DEF HasReceived
        <3> QED
            BY <1>1, <2>2, <3>1 DEF MergedInv
    <2> QED
        BY <2>1, <2>2
<1>12. TotalInv'
    BY <1>1, <1>2, <1>3, <1>13 DEF IInv, TotalInv, InRun
<1> QED
    BY <1>4, <1>7, <1>8, <1>9, <1>10, <1>11, <1>12 DEF IInv

LEMMA SkipPreserves ==
    ASSUME IInv, NEW p \in Processes, Skip(p)
    PROVE  IInv'
<1> USE WorkerFacts
<1>1. /\ TypeOK /\ run[p] \in Runs /\ pos[p] \in Positions
      /\ Current(p) \notin Synced(run[p])
      /\ pos' = [pos EXCEPT ![p] = @ + 1]
      /\ plan' = plan /\ run' = run /\ sending' = sending /\ channel' = channel
      /\ from' = from /\ merged' = merged /\ total' = total
    BY DEF Skip, IInv, Syncing, InRun, supervisorVars
<1>2. \A q \in Processes : pos'[q] = IF q = p THEN pos[p] + 1 ELSE pos[q]
    BY <1>1 DEF TypeOK
<1>3. \A r \in Runs : Synced(r)' = Synced(r)
    BY <1>1 DEF Synced
<1>4. TypeOK'
    BY <1>1 DEF TypeOK, Positions
<1>5. p \in Workers => sending[p] = FALSE
    BY <1>1 DEF IInv, SendingInv, TypeOK
<1>6. p = 0 => from = 1
    BY <1>1 DEF IInv, FromInv, Syncing, InRun
<1>7. \A q \in Processes : pos[q] \in 0..7 /\ pos'[q] \in 0..7
    BY <1>1, <1>4 DEF TypeOK
<1>8. ASSUME NEW w \in Workers, NEW t \in Tags, NEW r \in Runs
      PROVE  /\ HasSent(w, t, r)' <=> HasSent(w, t, r)
             /\ HasReceived(w, t, r)' <=> HasReceived(w, t, r)
    <2>1. /\ Place[t] \in Positions
          /\ (run[p] = r /\ t \in Synced(r)) => pos[p] # Place[t]
        BY <1>1, PlacesOfTags DEF Current
    <2>2. HasSent(w, t, r)' <=> HasSent(w, t, r)
        <3>1. CASE p # w
            BY <1>1, <1>2, <1>3, <3>1 DEF HasSent
        <3>2. CASE p = w
            BY <1>1, <1>2, <1>3, <1>5, <1>7, <2>1, <3>2 DEF HasSent, Positions
        <3> QED
            BY <3>1, <3>2
    <2>3. HasReceived(w, t, r)' <=> HasReceived(w, t, r)
        <3>1. CASE p # 0
            BY <1>1, <1>2, <1>3, <3>1 DEF HasReceived
        <3>2. CASE p = 0
            BY <1>1, <1>2, <1>3, <1>6, <1>7, <2>1, <3>2 DEF HasReceived, Positions
        <3> QED
            BY <3>1, <3>2
    <2> QED
        BY <2>2, <2>3
<1>9. InOrder' /\ SentInv' /\ InTransit' /\ ReceivedWasSent'
    BY <1>1, <1>8, NothingMoves DEF IInv
<1>10. SendingInv'
    BY <1>1, <1>2, <1>5 DEF IInv, SendingInv, Syncing, Current, InRun, Synced
<1>11. FromInv'
    BY <1>1, <1>2, <1>6 DEF IInv, FromInv, Syncing, Current, InRun, Synced
<1>12. RunInv'
    BY <1>1, <1>2 DEF IInv, RunInv, InRun
<1>15. run'[0] = run[0] /\ (Undisturbed(run[0])' <=> Undisturbed(run[0]))
       /\ (NothingMissing(run[0])' <=> NothingMissing(run[0]))
    BY <1>1, SamePlan
<1>13. MergedInv'
    <2>1. InRun(0)' /\ pos'[0] > 0 => InRun(0) /\ pos[0] > 0
        BY <1>1, <1>2, <1>7 DEF InRun, Positions
    <2>2. run'[0] = run[0] /\ merged' = merged
        BY <1>1
    <2>3. ASSUME run[0] \in Runs, NEW t \in Tags
          PROVE  {w \in Workers : HasReceived(w, t, run[0])'}
                     = {w \in Workers : HasReceived(w, t, run[0])}
        BY <1>8, <2>2, <2>3 DEF HasReceived
    <2> QED
        BY <1>15, <2>1, <2>2, <2>3 DEF IInv, MergedInv, InRun
<1>14. TotalInv'
    <2>1. p = 0 => pos[0] > 2
        BY <1>1 DEF Current, Outputs, Synced, Positions
    <2> QED
        BY <1>1, <1>2, <1>7, <1>15, <2>1 DEF IInv, TotalInv, InRun
<1> QED
    BY <1>4, <1>9, <1>10, <1>11, <1>12, <1>13, <1>14 DEF IInv

LEMMA SendPreserves ==
    ASSUME IInv, NEW w \in Workers, Send(w)
    PROVE  IInv'
<1> USE WorkerFacts
<1> DEFINE o == Current(w)
           ch == channel[w][o]
<1>1. /\ TypeOK /\ run[w] \in Runs /\ pos[w] \in Positions
      /\ o \in Synced(run[w]) /\ sending[w] = FALSE
      /\ channel' = [channel EXCEPT ![w][o] = Append(@, run[w])]
      /\ sending' = [sending EXCEPT ![w] = TRUE]
      /\ plan' = plan /\ run' = run /\ pos' = pos
      /\ from' = from /\ merged' = merged /\ total' = total
    BY DEF Send, IInv, Syncing, InRun, supervisorVars, TypeOK
<1>2. o \in Tags /\ Place[o] = pos[w]
    BY <1>1, PlacesOfTags DEF Current
<1>3. ch \in Seq(Runs) /\ ch \in Seq(Nat) /\ run[w] \in Nat
    <2>1. channel[w] \in [Tags -> Seq(Runs)]
        BY <1>1 DEF TypeOK
    <2>2. ch \in Seq(Runs)
        BY <1>2, <2>1
    <2> QED
        BY <1>1, <2>2
<1>4. \A v \in Workers : sending'[v] = IF v = w THEN TRUE ELSE sending[v]
    BY <1>1 DEF TypeOK
<1>5. \A v \in Workers, t \in Tags :
          channel'[v][t] = IF v = w /\ t = o THEN Append(ch, run[w]) ELSE channel[v][t]
    BY <1>1, <1>2 DEF TypeOK
<1>6. TypeOK'
    <2>1. Append(ch, run[w]) \in Seq(Runs)
        BY <1>1, <1>3
    <2>2. channel' \in [Workers -> [Tags -> Seq(Runs)]]
        BY <1>1, <1>2, <2>1 DEF TypeOK
    <2> QED
        BY <1>1, <2>2 DEF TypeOK
<1>7. \A r \in Runs : Synced(r)' = Synced(r)
    BY <1>1 DEF Synced
<1>8. ~HasSent(w, o, run[w])
    BY <1>1, <1>2, <1>3 DEF HasSent, Positions
<1>9. \A i \in DOMAIN ch : ch[i] < run[w]
    <2> SUFFICES ASSUME NEW i \in DOMAIN ch PROVE ch[i] < run[w]
        OBVIOUS
    <2>1. ch[i] \in Runs /\ ch[i] \in Nat
        BY <1>3
    <2>2. InChannel(w, o, ch[i])
        BY DEF InChannel
    <2>3. HasSent(w, o, ch[i])
        BY <1>2, <2>1, <2>2 DEF IInv, SentInv
    <2> QED
        BY <1>3, <1>8, <2>1, <2>3 DEF HasSent
<1>10. Increasing(ch)
    BY <1>2 DEF IInv, InOrder, Increasing
<1>11. /\ Increasing(Append(ch, run[w]))
       /\ \A q : (\E i \in DOMAIN Append(ch, run[w]) : Append(ch, run[w])[i] = q) <=>
                 (q = run[w] \/ \E i \in DOMAIN ch : ch[i] = q)
    BY <1>3, <1>9, <1>10, AppendIncreasing
<1>12. InOrder'
    <2> SUFFICES ASSUME NEW v \in Workers, NEW t \in Tags PROVE Increasing(channel'[v][t])
        BY DEF InOrder, Increasing
    <2>1. Increasing(channel[v][t])
        BY DEF IInv, InOrder, Increasing
    <2> QED
        BY <1>5, <1>11, <2>1
<1>13. \A v \in Workers, t \in Tags, r \in Runs :
          InChannel(v, t, r)' <=> InChannel(v, t, r) \/ (v = w /\ t = o /\ r = run[w])
    <2> SUFFICES ASSUME NEW v \in Workers, NEW t \in Tags, NEW r \in Runs
                 PROVE  InChannel(v, t, r)' <=>
                            InChannel(v, t, r) \/ (v = w /\ t = o /\ r = run[w])
        OBVIOUS
    <2>1. CASE v = w /\ t = o
        <3>1. channel'[v][t] = Append(ch, run[w]) /\ channel[v][t] = ch
            BY <1>5, <2>1
        <3>2. InChannel(v, t, r)' <=>
                  \E i \in DOMAIN Append(ch, run[w]) : Append(ch, run[w])[i] = r
            BY <3>1 DEF InChannel
        <3>3. InChannel(v, t, r) <=> \E i \in DOMAIN ch : ch[i] = r
            BY <3>1 DEF InChannel
        <3> QED
            BY <1>11, <2>1, <3>2, <3>3
    <2>2. CASE ~(v = w /\ t = o)
        BY <1>5, <2>2 DEF InChannel
    <2> QED
        BY <2>1, <2>2
<1>14. \A v \in Workers, t \in Tags, r \in Runs :
          HasSent(v, t, r)' <=> HasSent(v, t, r) \/ (v = w /\ t = o /\ r = run[w])
    <2> SUFFICES ASSUME NEW v \in Workers, NEW t \in Tags, NEW r \in Runs
                 PROVE  HasSent(v, t, r)' <=>
                            HasSent(v, t, r) \/ (v = w /\ t = o /\ r = run[w])
        OBVIOUS
    <2>1. CASE v # w
        BY <1>1, <1>4, <1>7, <2>1 DEF HasSent
    <2>2. CASE v = w /\ ~(run[w] = r /\ pos[w] = Place[t])
        BY <1>1, <1>2, <1>4, <1>7, <2>2 DEF HasSent
    <2>3. CASE v = w /\ run[w] = r /\ pos[w] = Place[t]
        <3>1. t = o
            BY <1>1, <2>3, PlacesOfTags DEF Current
        <3> QED
            BY <1>1, <1>4, <1>7, <2>3, <3>1 DEF HasSent
    <2> QED
        BY <2>1, <2>2, <2>3
<1>15. \A v \in Workers, t \in Tags, r \in Runs : HasReceived(v, t, r)' <=> HasReceived(v, t, r)
    BY <1>1, <1>7 DEF HasReceived
<1>16. Undisturbed(run[w]) => ~HasReceived(w, o, run[w])
    BY <1>1, <1>2, <1>8 DEF IInv, ReceivedWasSent
<1>17. SentInv'
    BY <1>13, <1>14 DEF IInv, SentInv
<1>18. InTransit'
    <2> SUFFICES ASSUME NEW v \in Workers, NEW t \in Tags, NEW r \in Runs, Undisturbed(r)
                 PROVE  (InChannel(v, t, r) <=> HasSent(v, t, r) /\ ~HasReceived(v, t, r))'
        BY <1>1, SamePlan DEF InTransit
    <2>1. InChannel(v, t, r) <=> HasSent(v, t, r) /\ ~HasReceived(v, t, r)
        BY DEF IInv, InTransit
    <2> QED
        BY <1>13, <1>14, <1>15, <1>16, <2>1
<1>23. ReceivedWasSent'
    BY <1>1, <1>14, <1>15, SamePlan DEF IInv, ReceivedWasSent
<1>24. run'[0] = run[0] /\ (Undisturbed(run[0])' <=> Undisturbed(run[0]))
       /\ (NothingMissing(run[0])' <=> NothingMissing(run[0]))
    BY <1>1, SamePlan
<1>19. SendingInv'
    BY <1>1, <1>4 DEF IInv, SendingInv, Syncing, Current, InRun, Synced
<1>20. FromInv' /\ RunInv'
    BY <1>1 DEF IInv, FromInv, RunInv, Syncing, Current, InRun, Synced
<1>21. MergedInv'
    BY <1>1, <1>15, <1>24 DEF IInv, MergedInv, InRun
<1>22. TotalInv'
    BY <1>1, <1>24 DEF IInv, TotalInv, InRun
<1> QED
    BY <1>6, <1>12, <1>17, <1>18, <1>19, <1>20, <1>21, <1>22, <1>23 DEF IInv

LEMMA SendReturnsPreserves ==
    ASSUME IInv, NEW w \in Workers, SendReturns(w)
    PROVE  IInv'
<1> USE WorkerFacts
<1>1. /\ TypeOK /\ run[w] \in Runs /\ pos[w] \in Positions /\ sending[w] = TRUE
      /\ pos' = [pos EXCEPT ![w] = @ + 1]
      /\ sending' = [sending EXCEPT ![w] = FALSE]
      /\ plan' = plan /\ run' = run /\ channel' = channel
      /\ from' = from /\ merged' = merged /\ total' = total
    BY DEF SendReturns, IInv, SendingInv, Syncing, InRun, supervisorVars, TypeOK
<1>2. \A q \in Processes : pos'[q] = IF q = w THEN pos[w] + 1 ELSE pos[q]
    BY <1>1 DEF TypeOK
<1>3. \A v \in Workers : sending'[v] = IF v = w THEN FALSE ELSE sending[v]
    BY <1>1 DEF TypeOK
<1>4. TypeOK'
    BY <1>1 DEF TypeOK, Positions
<1>5. \A r \in Runs : Synced(r)' = Synced(r)
    BY <1>1 DEF Synced
<1>6. pos'[0] = pos[0]
    BY <1>2
<1>7. ASSUME NEW v \in Workers, NEW t \in Tags, NEW r \in Runs
      PROVE  /\ HasSent(v, t, r)' <=> HasSent(v, t, r)
             /\ HasReceived(v, t, r)' <=> HasReceived(v, t, r)
    <2>1. HasReceived(v, t, r)' <=> HasReceived(v, t, r)
        BY <1>1, <1>5, <1>6 DEF HasReceived
    <2>2. CASE v # w
        BY <1>1, <1>2, <1>3, <1>5, <2>1, <2>2 DEF HasSent
    <2>3. CASE v = w
        <3>1. Place[t] \in 1..6 /\ pos[w] \in 1..6 /\ pos'[w] = pos[w] + 1
            BY <1>1, <1>2, PlacesOfTags DEF Positions
        <3>2. pos'[w] > Place[t] <=> pos[w] > Place[t] \/ pos[w] = Place[t]
            BY <3>1
        <3>3. sending[w] /\ ~sending'[w]
            BY <1>1, <1>3
        <3> QED
            BY <1>1, <1>5, <2>1, <2>3, <3>2, <3>3 DEF HasSent
    <2> QED
        BY <2>2, <2>3
<1>8. InOrder' /\ SentInv' /\ InTransit' /\ ReceivedWasSent'
    BY <1>1, <1>7, NothingMoves DEF IInv
<1>9. SendingInv'
    BY <1>1, <1>2, <1>3 DEF IInv, SendingInv, Syncing, Current, InRun, Synced
<1>10. FromInv'
    BY <1>1, <1>6 DEF IInv, FromInv, Syncing, Current, InRun, Synced
<1>11. RunInv'
    BY <1>1, <1>2 DEF IInv, RunInv, InRun
<1>14. run'[0] = run[0] /\ (Undisturbed(run[0])' <=> Undisturbed(run[0]))
       /\ (NothingMissing(run[0])' <=> NothingMissing(run[0]))
    BY <1>1, SamePlan
<1>12. MergedInv'
    BY <1>1, <1>6, <1>7, <1>14 DEF IInv, MergedInv, InRun
<1>13. TotalInv'
    BY <1>1, <1>6, <1>14 DEF IInv, TotalInv, InRun
<1> QED
    BY <1>4, <1>8, <1>9, <1>10, <1>11, <1>12, <1>13 DEF IInv

(* What is received in an undisturbed run is this run's.                   *)
LEMMA ReceiveUndisturbed ==
    ASSUME IInv, Receive, Undisturbed(run[0])
    PROVE  IInv'
<1> USE WorkerFacts
<1> DEFINE o == Current(0)
           ch == channel[from][o]
<1>1. Waiting /\ Probed # <<>> /\ TypeOK
    BY DEF Receive, IInv
<1>2. /\ o \in Tags /\ Place[o] = pos[0] /\ run[0] \in Runs /\ run[0] \in Nat
      /\ ProbedTag(o) = o /\ ch \in Seq(Nat) /\ Increasing(ch) /\ Head(ch) = run[0]
      /\ HasSent(from, o, run[0]) /\ ~NoElements(from, run[0], o)
    BY <1>1, HeadIsThisRun
<1>3. from \in Workers /\ pos[0] \in Positions /\ o \in Synced(run[0])
    BY <1>1 DEF Waiting, Syncing
<1>4. Probed = ch /\ ch # <<>>
    BY <1>1, <1>2 DEF Probed
<1>5. /\ channel' = [channel EXCEPT ![from][o] = Tail(@)]
      /\ merged' = [merged EXCEPT ![o] = @ \cup {<<from, run[0]>>}]
      /\ total' = IF o = "results" THEN total + Recorded(from, run[0]) ELSE total
      /\ from' = from + 1
      /\ plan' = plan /\ run' = run /\ pos' = pos /\ sending' = sending
    BY <1>2, <1>4 DEF Receive
<1>6. \A v \in Workers, t \in Tags :
          channel'[v][t] = IF v = from /\ t = o THEN Tail(ch) ELSE channel[v][t]
    BY <1>1, <1>2, <1>3, <1>5 DEF TypeOK
<1>7. \A t \in Tags :
          merged'[t] = IF t = o THEN merged[o] \cup {<<from, run[0]>>} ELSE merged[t]
    BY <1>1, <1>2, <1>5 DEF TypeOK
<1>8. /\ Recorded(from, run[0]) \in Nat
      /\ NothingMissing(run[0]) =>
             ConfiguredBefore(plan[run[0]].sn, from + 1) =
                 ConfiguredBefore(plan[run[0]].sn, from) + Recorded(from, run[0])
    <2>1. /\ plan[run[0]].sn \in Nat /\ Recorded(from, run[0]) \in Nat
          /\ NothingMissing(run[0]) => Recorded(from, run[0]) = Configured(plan[run[0]].sn, from)
        BY <1>1, <1>2, <1>3, PlanFacts
    <2> QED
        BY <1>3, <2>1, ConfiguredShares
<1>9. TypeOK'
    <2>1. ch \in Seq(Runs)
        <3>1. channel[from] \in [Tags -> Seq(Runs)]
            BY <1>1, <1>3 DEF TypeOK
        <3> QED
            BY <1>2, <3>1
    <2>2. Tail(ch) \in Seq(Runs)
        BY <1>4, <2>1
    <2>3. channel' \in [Workers -> [Tags -> Seq(Runs)]]
        BY <1>1, <1>2, <1>3, <1>5, <2>2 DEF TypeOK
    <2>4. merged' \in [Tags -> SUBSET (Workers \X Runs)]
        BY <1>1, <1>2, <1>3, <1>5 DEF TypeOK
    <2>5. total' \in Nat /\ from' \in 1..N
        BY <1>1, <1>3, <1>5, <1>8 DEF TypeOK
    <2> QED
        BY <1>1, <1>5, <2>3, <2>4, <2>5 DEF TypeOK
<1>10. \A r \in Runs : Synced(r)' = Synced(r)
    BY <1>5 DEF Synced
<1>11. \A v \in Workers, t \in Tags, r \in Runs : HasSent(v, t, r)' <=> HasSent(v, t, r)
    BY <1>5, <1>10 DEF HasSent
<1>12. \A v \in Workers, t \in Tags, r \in Runs :
          HasReceived(v, t, r)' <=> HasReceived(v, t, r) \/ (v = from /\ t = o /\ r = run[0])
    <2> SUFFICES ASSUME NEW v \in Workers, NEW t \in Tags, NEW r \in Runs
                 PROVE  HasReceived(v, t, r)' <=>
                            HasReceived(v, t, r) \/ (v = from /\ t = o /\ r = run[0])
        OBVIOUS
    <2>1. pos[0] = Place[t] <=> t = o
        BY <1>2, <1>3, PlacesOfTags DEF Current
    <2>2. from' > v <=> from > v \/ v = from
        BY <1>3, <1>5
    <2> QED
        BY <1>3, <1>5, <1>10, <2>1, <2>2 DEF HasReceived
<1>13. /\ Increasing(Tail(ch))
       /\ \A q : (\E i \in DOMAIN Tail(ch) : Tail(ch)[i] = q) <=>
                 (q # run[0] /\ \E i \in DOMAIN ch : ch[i] = q)
    BY <1>2, <1>4, TailIncreasing, ZenonT(30)
<1>14. InOrder'
    <2> SUFFICES ASSUME NEW v \in Workers, NEW t \in Tags PROVE Increasing(channel'[v][t])
        BY DEF InOrder, Increasing
    <2>1. Increasing(channel[v][t])
        BY DEF IInv, InOrder, Increasing
    <2> QED
        BY <1>6, <1>13, <2>1
<1>15. \A v \in Workers, t \in Tags, r \in Runs :
          InChannel(v, t, r)' <=> InChannel(v, t, r) /\ ~(v = from /\ t = o /\ r = run[0])
    <2> SUFFICES ASSUME NEW v \in Workers, NEW t \in Tags, NEW r \in Runs
                 PROVE  InChannel(v, t, r)' <=>
                            InChannel(v, t, r) /\ ~(v = from /\ t = o /\ r = run[0])
        OBVIOUS
    <2>1. CASE v = from /\ t = o
        <3>1. channel'[v][t] = Tail(ch) /\ channel[v][t] = ch
            BY <1>6, <2>1
        <3>2. InChannel(v, t, r)' <=> \E i \in DOMAIN Tail(ch) : Tail(ch)[i] = r
            BY <3>1 DEF InChannel
        <3>3. InChannel(v, t, r) <=> \E i \in DOMAIN ch : ch[i] = r
            BY <3>1 DEF InChannel
        <3> QED
            BY <1>13, <2>1, <3>2, <3>3
    <2>2. CASE ~(v = from /\ t = o)
        BY <1>6, <2>2 DEF InChannel
    <2> QED
        BY <2>1, <2>2
<1>16. SentInv'
    BY <1>11, <1>15 DEF IInv, SentInv
<1>17. InTransit'
    <2> SUFFICES ASSUME NEW v \in Workers, NEW t \in Tags, NEW r \in Runs, Undisturbed(r)
                 PROVE  (InChannel(v, t, r) <=> HasSent(v, t, r) /\ ~HasReceived(v, t, r))'
        BY <1>5, SamePlan DEF InTransit
    <2>1. InChannel(v, t, r) <=> HasSent(v, t, r) /\ ~HasReceived(v, t, r)
        BY DEF IInv, InTransit
    <2> QED
        BY <1>11, <1>12, <1>15, <2>1
<1>22. ReceivedWasSent'
    BY <1>2, <1>5, <1>11, <1>12, SamePlan DEF IInv, ReceivedWasSent
<1>23. run'[0] = run[0] /\ (Undisturbed(run[0])' <=> Undisturbed(run[0]))
       /\ (NothingMissing(run[0])' <=> NothingMissing(run[0]))
    BY <1>5, SamePlan
<1>18. SendingInv' /\ RunInv'
    BY <1>5 DEF IInv, SendingInv, RunInv, Syncing, Current, InRun, Synced
<1>19. FromInv'
    BY <1>3, <1>5 DEF FromInv, Syncing, Current, InRun, Synced
<1>20. MergedInv'
    <2> SUFFICES ASSUME NEW t \in Tags
                 PROVE  merged'[t] = {v \in Workers : HasReceived(v, t, run[0])'} \X {run[0]}
        BY <1>5 DEF MergedInv, HasReceived
    <2>1. merged[t] = {v \in Workers : HasReceived(v, t, run[0])} \X {run[0]}
        BY <1>2, <1>3, SMTT(30) DEF IInv, MergedInv, InRun, Positions
    <2>4. ASSUME NEW v \in Workers
          PROVE  HasReceived(v, t, run[0])' <=>
                     HasReceived(v, t, run[0]) \/ (v = from /\ t = o)
        BY <1>2, <1>5, <1>12 DEF HasReceived
    <2>2. CASE t = o
        <3>1. {v \in Workers : HasReceived(v, t, run[0])'}
                  = {v \in Workers : HasReceived(v, t, run[0])} \cup {from}
            BY <1>3, <2>2, <2>4
        <3> QED
            BY <1>7, <2>1, <2>2, <3>1
    <2>3. CASE t # o
        <3>1. {v \in Workers : HasReceived(v, t, run[0])'}
                  = {v \in Workers : HasReceived(v, t, run[0])}
            BY <2>3, <2>4
        <3> QED
            BY <1>7, <2>1, <2>3, <3>1
    <2> QED
        BY <2>2, <2>3
<1>21. TotalInv'
    <2>1. o = "results" <=> pos[0] = 2
        BY <1>2, <1>3, SMTT(30) DEF Current, Outputs, Positions
    <2> QED
        BY <1>1, <1>2, <1>3, <1>5, <1>8, <1>23, <2>1 DEF IInv, TotalInv, InRun, TypeOK
<1> QED
    BY <1>9, <1>14, <1>16, <1>17, <1>18, <1>19, <1>20, <1>21, <1>22 DEF IInv

(* In a later one it may be another run's, but of no undisturbed one.      *)
LEMMA ReceiveDisturbed ==
    ASSUME IInv, Receive, ~Undisturbed(run[0])
    PROVE  IInv'
<1> USE WorkerFacts
<1> DEFINE o == Current(0)
           t == ProbedTag(o)
           ch == channel[from][t]
<1>1. /\ TypeOK /\ run[0] \in Runs /\ from \in Workers /\ o \in Synced(run[0])
      /\ ch # <<>> /\ from' = from + 1
      /\ plan' = plan /\ run' = run /\ pos' = pos /\ sending' = sending
      /\ \/ channel' = channel /\ merged' = merged /\ total' = total
         \/ /\ channel' = [channel EXCEPT ![from][t] = Tail(@)]
            /\ merged' = [merged EXCEPT ![o] = @ \cup {<<from, Head(ch)>>}]
            /\ total' = IF o = "results" THEN total + Recorded(from, Head(ch)) ELSE total
    BY DEF IInv, Receive, Waiting, Syncing, InRun, Probed
<1>2. o \in Tags /\ t \in Tags
    BY <1>1, PlanFacts DEF ProbedTag, Tags
<1>3. channel[from] \in [Tags -> Seq(Runs)]
    BY <1>1 DEF TypeOK
<1>4. ch \in Seq(Runs) /\ Head(ch) \in Runs /\ Tail(ch) \in Seq(Runs) /\ ch \in Seq(Nat)
    <2>1. ch \in Seq(Runs)
        BY <1>2, <1>3
    <2> HIDE DEF ch
    <2> QED
        BY <1>1, <2>1
<1> HIDE DEF ch, t, o
<1>5. \A v \in Workers, u \in Tags :
          \/ channel'[v][u] = channel[v][u]
          \/ v = from /\ u = t /\ channel'[v][u] = Tail(ch)
    <2>1. CASE channel' = channel
        BY <2>1
    <2>2. CASE channel' = [channel EXCEPT ![from][t] = Tail(@)]
        BY <1>1, <1>2, <2>2 DEF TypeOK, ch
    <2> QED
        BY <1>1, <2>1, <2>2
<1>6. TypeOK'
    <2>1. channel' \in [Workers -> [Tags -> Seq(Runs)]]
        <3>1. CASE channel' = channel
            BY <1>1, <3>1 DEF TypeOK
        <3>2. CASE channel' = [channel EXCEPT ![from][t] = Tail(@)]
            BY <1>1, <1>2, <1>4, <3>2 DEF TypeOK, ch
        <3> QED
            BY <1>1, <3>1, <3>2
    <2>2. merged' \in [Tags -> SUBSET (Workers \X Runs)]
        <3>1. CASE merged' = merged
            BY <1>1, <3>1 DEF TypeOK
        <3>2. CASE merged' = [merged EXCEPT ![o] = @ \cup {<<from, Head(ch)>>}]
            BY <1>1, <1>2, <1>4, <3>2 DEF TypeOK
        <3> QED
            BY <1>1, <3>1, <3>2
    <2>3. total' \in Nat
        <3>1. total \in Nat /\ Recorded(from, Head(ch)) \in Nat
            BY <1>1, <1>4, PlanFacts DEF TypeOK
        <3> QED
            BY <1>1, <3>1
    <2>4. from' \in 1..N
        BY <1>1
    <2> QED
        BY <1>1, <2>1, <2>2, <2>3, <2>4 DEF TypeOK
<1>7. Increasing(ch)
    BY <1>1, <1>2 DEF IInv, InOrder, Increasing, ch
<1>8. /\ Increasing(Tail(ch))
      /\ \A q : (\E i \in DOMAIN Tail(ch) : Tail(ch)[i] = q) <=>
                (q # Head(ch) /\ \E i \in DOMAIN ch : ch[i] = q)
    BY <1>1, <1>4, <1>7, TailIncreasing, ZenonT(30)
<1>9. InOrder'
    <2> SUFFICES ASSUME NEW v \in Workers, NEW u \in Tags PROVE Increasing(channel'[v][u])
        BY DEF InOrder, Increasing
    <2>1. Increasing(channel[v][u])
        BY DEF IInv, InOrder, Increasing
    <2> QED
        BY <1>5, <1>8, <2>1
<1>10. \A v \in Workers, u \in Tags, r \in Runs :
          /\ InChannel(v, u, r)' => InChannel(v, u, r)
          /\ HasSent(v, u, r)' <=> HasSent(v, u, r)
    <2> SUFFICES ASSUME NEW v \in Workers, NEW u \in Tags, NEW r \in Runs
                 PROVE  /\ InChannel(v, u, r)' => InChannel(v, u, r)
                        /\ HasSent(v, u, r)' <=> HasSent(v, u, r)
        OBVIOUS
    <2>1. HasSent(v, u, r)' <=> HasSent(v, u, r)
        BY <1>1, SamePlan DEF HasSent
    <2>2. InChannel(v, u, r)' => InChannel(v, u, r)
        BY <1>5, <1>8 DEF InChannel, ch
    <2> QED
        BY <2>1, <2>2
<1>11. SentInv'
    BY <1>10 DEF IInv, SentInv
<1>12. ASSUME NEW v \in Workers, NEW u \in Tags, NEW r \in Runs, Undisturbed(r)
       PROVE  /\ u \in Synced(r) => HasReceived(v, u, r) /\ HasReceived(v, u, r)'
              /\ HasReceived(v, u, r)' => u \in Synced(r)
    <2>1. run[0] > r
        BY <1>1, <1>12, EarlierRuns
    <2> QED
        BY <1>1, <2>1, SamePlan DEF HasReceived
<1>13. InTransit'
    <2> SUFFICES ASSUME NEW v \in Workers, NEW u \in Tags, NEW r \in Runs, Undisturbed(r)
                 PROVE  (InChannel(v, u, r) <=> HasSent(v, u, r) /\ ~HasReceived(v, u, r))'
        BY <1>1, SamePlan DEF InTransit
    <2>1. InChannel(v, u, r) <=> HasSent(v, u, r) /\ ~HasReceived(v, u, r)
        BY DEF IInv, InTransit
    <2>2. HasSent(v, u, r) => u \in Synced(r)
        BY DEF HasSent
    <2> QED
        BY <1>10, <1>12, <2>1, <2>2
<1>14. ReceivedWasSent'
    <2> SUFFICES ASSUME NEW v \in Workers, NEW u \in Tags, NEW r \in Runs, Undisturbed(r),
                        HasReceived(v, u, r)'
                 PROVE  HasSent(v, u, r)'
        BY <1>1, SamePlan DEF ReceivedWasSent
    <2> QED
        BY <1>10, <1>12 DEF IInv, ReceivedWasSent
<1>15. SendingInv' /\ RunInv'
    BY <1>1 DEF IInv, SendingInv, RunInv, Syncing, Current, InRun, Synced
<1>16. FromInv'
    BY <1>1 DEF FromInv, Syncing, Current, InRun, Synced, o
<1>17. ~Undisturbed(run[0])'
    BY <1>1, SamePlan
<1>18. MergedInv' /\ TotalInv'
    BY <1>17 DEF MergedInv, TotalInv
<1> QED
    BY <1>6, <1>9, <1>11, <1>13, <1>14, <1>15, <1>16, <1>18 DEF IInv

LEMMA NextOutputPreserves ==
    ASSUME IInv, NextOutput
    PROVE  IInv'
<1> USE WorkerFacts
<1> DEFINE o == Current(0)
<1>1. /\ TypeOK /\ run[0] \in Runs /\ pos[0] \in Positions /\ from = N
      /\ o \in Synced(run[0])
      /\ pos' = [pos EXCEPT ![0] = @ + 1] /\ from' = 1
      /\ plan' = plan /\ run' = run /\ sending' = sending /\ channel' = channel
      /\ merged' = merged /\ total' = total
    BY DEF NextOutput, IInv, Syncing, InRun
<1>2. \A q \in Processes : pos'[q] = IF q = 0 THEN pos[0] + 1 ELSE pos[q]
    BY <1>1 DEF TypeOK
<1>3. \A r \in Runs : Synced(r)' = Synced(r)
    BY <1>1 DEF Synced
<1>4. TypeOK'
    BY <1>1, MpiAssumption, SMTT(30) DEF TypeOK, Positions
<1>5. ASSUME NEW w \in Workers, NEW t \in Tags, NEW r \in Runs
      PROVE  /\ HasSent(w, t, r)' <=> HasSent(w, t, r)
             /\ HasReceived(w, t, r)' <=> HasReceived(w, t, r)
    <2>1. HasSent(w, t, r)' <=> HasSent(w, t, r)
        BY <1>1, <1>2, <1>3 DEF HasSent
    <2>2. /\ Place[t] \in 1..6 /\ pos[0] \in 1..6 /\ pos'[0] = pos[0] + 1
          /\ from > w /\ ~(from' > w)
        BY <1>1, <1>2, PlacesOfTags, MpiAssumption DEF Positions, Workers
    <2>3. pos'[0] > Place[t] <=> pos[0] > Place[t] \/ pos[0] = Place[t]
        BY <2>2
    <2>4. HasReceived(w, t, r)' <=> HasReceived(w, t, r)
        BY <1>1, <1>3, <2>2, <2>3 DEF HasReceived
    <2> QED
        BY <2>1, <2>4
<1>6. InOrder' /\ SentInv' /\ InTransit' /\ ReceivedWasSent'
    BY <1>1, <1>5, NothingMoves DEF IInv
<1>7. SendingInv'
    BY <1>1, <1>2 DEF IInv, SendingInv, Syncing, Current, InRun, Synced
<1>8. FromInv'
    BY <1>1 DEF FromInv
<1>9. RunInv'
    BY <1>1, <1>2 DEF IInv, RunInv, InRun
<1>12. run'[0] = run[0] /\ (Undisturbed(run[0])' <=> Undisturbed(run[0]))
       /\ (NothingMissing(run[0])' <=> NothingMissing(run[0]))
    BY <1>1, SamePlan
<1>10. MergedInv'
    <2> SUFFICES ASSUME Undisturbed(run[0]), NEW t \in Tags
                 PROVE  merged[t] = {w \in Workers : HasReceived(w, t, run[0])'} \X {run[0]}
        BY <1>1, <1>12 DEF MergedInv, HasReceived
    <2>1. merged[t] = {w \in Workers : HasReceived(w, t, run[0])} \X {run[0]}
        BY <1>1 DEF IInv, MergedInv, InRun, Positions
    <2>2. ASSUME NEW w \in Workers
          PROVE  HasReceived(w, t, run[0])' <=> HasReceived(w, t, run[0])
        BY <1>1, <1>5 DEF HasReceived
    <2> QED
        BY <2>1, <2>2
<1>11. TotalInv'
    <2>1. pos[0] \in 1..6 /\ pos'[0] = pos[0] + 1
        BY <1>1, <1>2 DEF Positions
    <2> QED
        BY <1>1, <1>12, <2>1 DEF IInv, TotalInv, InRun
<1> QED
    BY <1>4, <1>6, <1>7, <1>8, <1>9, <1>10, <1>11 DEF IInv

LEMMA ReturnPreserves ==
    ASSUME IInv, NEW p \in Processes, Return(p)
    PROVE  IInv'
<1> USE WorkerFacts
<1>1. /\ TypeOK /\ run[p] \in Runs /\ pos[p] = 7
      /\ run' = [run EXCEPT ![p] = @ + 1] /\ pos' = [pos EXCEPT ![p] = 0]
      /\ plan' = plan /\ sending' = sending /\ channel' = channel
      /\ from' = from /\ merged' = merged /\ total' = total
    BY DEF Return, EndRun, IInv, InRun, supervisorVars
<1>2. \A q \in Processes : /\ pos'[q] = IF q = p THEN 0 ELSE pos[q]
                           /\ run'[q] = IF q = p THEN run[p] + 1 ELSE run[q]
    BY <1>1 DEF TypeOK
<1>3. \A r \in Runs : Synced(r)' = Synced(r)
    BY <1>1 DEF Synced
<1>4. TypeOK'
    BY <1>1, MpiAssumption, SMTT(30) DEF TypeOK, Runs
<1>5. p \in Workers => ~sending[p]
    <2>1. ~Syncing(p)
        BY <1>1 DEF Syncing, Positions
    <2> QED
        BY <2>1 DEF IInv, SendingInv
<1>6. ASSUME NEW w \in Workers, NEW t \in Tags, NEW r \in Runs
      PROVE  /\ HasSent(w, t, r)' <=> HasSent(w, t, r)
             /\ HasReceived(w, t, r)' <=> HasReceived(w, t, r)
    <2>1. Place[t] \in 1..6 /\ r \in Nat /\ run[p] \in Nat
        BY <1>1, PlacesOfTags DEF Positions
    <2>2. HasSent(w, t, r)' <=> HasSent(w, t, r)
        <3>1. CASE p # w
            BY <1>1, <1>2, <1>3, <3>1 DEF HasSent
        <3>2. CASE p = w
            <4>1. ~(pos'[w] > Place[t]) /\ pos'[w] # Place[t] /\ pos[w] > Place[t]
                BY <1>1, <1>2, <2>1, <3>2
            <4>2. run'[w] > r <=> run[w] > r \/ run[w] = r
                BY <1>2, <2>1, <3>2
            <4> QED
                BY <1>1, <1>3, <4>1, <4>2 DEF HasSent
        <3> QED
            BY <3>1, <3>2
    <2>3. HasReceived(w, t, r)' <=> HasReceived(w, t, r)
        <3>1. CASE p # 0
            BY <1>1, <1>2, <1>3, <3>1 DEF HasReceived
        <3>2. CASE p = 0
            <4>1. ~(pos'[0] > Place[t]) /\ pos'[0] # Place[t] /\ pos[0] > Place[t]
                BY <1>1, <1>2, <2>1, <3>2
            <4>2. run'[0] > r <=> run[0] > r \/ run[0] = r
                BY <1>2, <2>1, <3>2
            <4> QED
                BY <1>1, <1>3, <4>1, <4>2 DEF HasReceived
        <3> QED
            BY <3>1, <3>2
    <2> QED
        BY <2>2, <2>3
<1>7. InOrder' /\ SentInv' /\ InTransit' /\ ReceivedWasSent'
    BY <1>1, <1>6, NothingMoves DEF IInv
<1>8. SendingInv'
    BY <1>1, <1>2, <1>5 DEF IInv, SendingInv, Syncing, Current, InRun, Synced
<1>9. FromInv'
    BY <1>1, <1>2 DEF IInv, FromInv, Syncing, Current, InRun, Synced, Positions
<1>10. RunInv'
    BY <1>1, <1>2 DEF IInv, RunInv, InRun
<1>13. p # 0 =>
       /\ run'[0] = run[0] /\ (Undisturbed(run[0])' <=> Undisturbed(run[0]))
       /\ (NothingMissing(run[0])' <=> NothingMissing(run[0]))
    BY <1>1, <1>2, SamePlan
<1>11. MergedInv'
    <2>1. CASE p = 0
        BY <1>2, <2>1 DEF MergedInv
    <2>2. CASE p # 0
        <3> SUFFICES ASSUME run[0] \in Runs, pos[0] > 0, Undisturbed(run[0]), NEW t \in Tags
                     PROVE  merged[t] = {w \in Workers : HasReceived(w, t, run[0])'} \X {run[0]}
            BY <1>1, <1>2, <1>13, <2>2 DEF MergedInv, HasReceived, InRun
        <3>1. merged[t] = {w \in Workers : HasReceived(w, t, run[0])} \X {run[0]}
            BY DEF IInv, MergedInv, InRun
        <3>2. ASSUME NEW w \in Workers
              PROVE  HasReceived(w, t, run[0])' <=> HasReceived(w, t, run[0])
            BY <1>1, <1>2, <1>6, <2>2, ZenonT(30) DEF HasReceived
        <3> QED
            BY <3>1, <3>2
    <2> QED
        BY <2>1, <2>2
<1>12. TotalInv'
    BY <1>1, <1>2, <1>13 DEF IInv, TotalInv, InRun
<1> QED
    BY <1>4, <1>7, <1>8, <1>9, <1>10, <1>11, <1>12 DEF IInv

(* A run that throws was disturbed: of the runs before, nothing changes.   *)
LEMMA ThrowPreserves ==
    ASSUME IInv, NEW p \in Processes, run[p] \in Runs, ~Undisturbed(run[p]), EndRun(p),
           p \in Workers => ~sending[p]
    PROVE  IInv'
<1> USE WorkerFacts
<1>1. /\ TypeOK /\ run[p] \in Runs
      /\ run' = [run EXCEPT ![p] = @ + 1] /\ pos' = [pos EXCEPT ![p] = 0]
      /\ plan' = plan /\ sending' = sending /\ channel' = channel
      /\ from' = from /\ merged' = merged /\ total' = total
    BY DEF EndRun, IInv, supervisorVars
<1>2. \A q \in Processes : /\ pos'[q] = IF q = p THEN 0 ELSE pos[q]
                           /\ run'[q] = IF q = p THEN run[p] + 1 ELSE run[q]
    BY <1>1 DEF TypeOK
<1>3. \A r \in Runs : Synced(r)' = Synced(r)
    BY <1>1 DEF Synced
<1>4. TypeOK'
    BY <1>1, MpiAssumption, SMTT(30) DEF TypeOK, Runs
<1>5. \A r \in Runs : Undisturbed(r) => run[p] > r /\ run'[p] > r
    <2>1. run[p] \in Nat /\ run'[p] = run[p] + 1
        BY <1>1, <1>2
    <2>2. ASSUME NEW r \in Runs, Undisturbed(r) PROVE ~(run[p] <= r) /\ r \in Nat
        BY <1>1, <2>2, EarlierRuns
    <2> QED
        BY <2>1, <2>2
<1>6. ASSUME NEW w \in Workers, NEW t \in Tags, NEW r \in Runs
      PROVE  /\ HasSent(w, t, r) => HasSent(w, t, r)'
             /\ Undisturbed(r) => /\ HasSent(w, t, r)' <=> HasSent(w, t, r)
                                  /\ HasReceived(w, t, r)' <=> HasReceived(w, t, r)
    <2>1. run[w] \in Nat /\ run[p] \in Nat /\ r \in Nat
        BY <1>1 DEF TypeOK
    <2>2. HasSent(w, t, r) => HasSent(w, t, r)'
        BY <1>1, <1>2, <1>3, <2>1 DEF HasSent
    <2>3. Undisturbed(r) => (HasSent(w, t, r)' <=> HasSent(w, t, r))
        BY <1>1, <1>2, <1>3, <1>5 DEF HasSent
    <2>4. Undisturbed(r) => (HasReceived(w, t, r)' <=> HasReceived(w, t, r))
        BY <1>1, <1>2, <1>3, <1>5 DEF HasReceived
    <2> QED
        BY <2>2, <2>3, <2>4
<1>7. InOrder' /\ SentInv' /\ InTransit' /\ ReceivedWasSent'
    BY <1>1, <1>6, NothingMoves
<1>8. SendingInv'
    BY <1>1, <1>2 DEF IInv, SendingInv, Syncing, Current, InRun, Synced
<1>9. FromInv'
    BY <1>1, <1>2 DEF IInv, FromInv, Syncing, Current, InRun, Synced, Positions
<1>10. RunInv'
    BY <1>1, <1>2 DEF IInv, RunInv, InRun
<1>11. CASE p = 0
    <2>1. MergedInv' /\ TotalInv'
        BY <1>2, <1>11 DEF MergedInv, TotalInv
    <2> QED
        BY <1>4, <1>7, <1>8, <1>9, <1>10, <2>1 DEF IInv
<1>12. CASE p # 0
    <2>1. /\ run'[0] = run[0] /\ pos'[0] = pos[0]
          /\ Undisturbed(run[0])' <=> Undisturbed(run[0])
          /\ NothingMissing(run[0])' <=> NothingMissing(run[0])
        BY <1>1, <1>2, <1>12, SamePlan
    <2>2. MergedInv'
        <3> SUFFICES ASSUME run[0] \in Runs, pos[0] > 0, Undisturbed(run[0]), NEW t \in Tags
                     PROVE  merged[t] = {w \in Workers : HasReceived(w, t, run[0])'} \X {run[0]}
            BY <1>1, <2>1 DEF MergedInv, HasReceived, InRun
        <3>1. merged[t] = {w \in Workers : HasReceived(w, t, run[0])} \X {run[0]}
            BY DEF IInv, MergedInv, InRun
        <3>2. ASSUME NEW w \in Workers
              PROVE  HasReceived(w, t, run[0])' <=> HasReceived(w, t, run[0])
            BY <1>1, <1>6, <2>1, ZenonT(30) DEF HasReceived
        <3> QED
            BY <3>1, <3>2
    <2>3. TotalInv'
        BY <1>1, <2>1 DEF IInv, TotalInv, InRun
    <2> QED
        BY <1>4, <1>7, <1>8, <1>9, <1>10, <2>2, <2>3 DEF IInv
<1> QED
    BY <1>11, <1>12

LEMMA BackendThrowsPreserves ==
    ASSUME IInv, NEW p \in Processes, BackendThrows(p)
    PROVE  IInv'
<1>1. run[p] \in Runs /\ pos[p] = 0 /\ EndRun(p) /\ plan[run[p]].fragile
    BY DEF BackendThrows, InRun
<1>2. ~Undisturbed(run[p])
    BY <1>1, PlanFacts DEF IInv
<1>3. p \in Workers => ~sending[p]
    BY <1>1 DEF IInv, SendingInv, Syncing, Positions
<1> QED
    BY <1>1, <1>2, <1>3, ThrowPreserves

LEMMA TimeoutPreserves ==
    ASSUME IInv, Timeout
    PROVE  IInv'
<1>1. run[0] \in Runs /\ ~Undisturbed(run[0]) /\ EndRun(0)
    BY DEF Timeout, Waiting, Syncing, InRun
<1> QED
    BY <1>1, WorkerFacts, ThrowPreserves

LEMMA StutterPreserves ==
    ASSUME IInv, UNCHANGED mpiVars
    PROVE  IInv'
<1>1. /\ plan' = plan /\ run' = run /\ pos' = pos /\ sending' = sending
      /\ channel' = channel /\ from' = from /\ merged' = merged /\ total' = total
    BY DEF mpiVars, supervisorVars
<1>2. TypeOK'
    BY <1>1 DEF IInv, TypeOK
<1>3. \A w \in Workers, t \in Tags, r \in Runs :
          /\ HasSent(w, t, r)' <=> HasSent(w, t, r)
          /\ HasReceived(w, t, r)' <=> HasReceived(w, t, r)
    BY <1>1 DEF HasSent, HasReceived, Synced
<1>4. InOrder' /\ SentInv' /\ InTransit' /\ ReceivedWasSent'
    BY <1>1, <1>3, NothingMoves
<1>5. SendingInv' /\ FromInv' /\ RunInv'
    BY <1>1 DEF IInv, SendingInv, FromInv, RunInv, Syncing, InRun, Current, Synced
<1>6. /\ Undisturbed(run[0])' <=> Undisturbed(run[0])
      /\ NothingMissing(run[0])' <=> NothingMissing(run[0])
    BY <1>1, SamePlan
<1>7. MergedInv'
    BY <1>1, <1>6 DEF IInv, MergedInv, InRun, HasReceived, Synced
<1>8. TotalInv'
    BY <1>1, <1>6 DEF IInv, TotalInv, InRun
<1> QED
    BY <1>2, <1>4, <1>5, <1>7, <1>8 DEF IInv

---------------------------------------------------------------------------
(* The theorems.                                                           *)

(* The inductive invariant: whatever runs with failing backends, native    *)
(* results or empty messages do, they leave the messages of the runs       *)
(* before them alone.                                                      *)
THEOREM Invariance == MpiSpec => []IInv
<1>1. MpiInit => IInv
    <2> SUFFICES ASSUME MpiInit PROVE IInv
        OBVIOUS
    <2>1. TypeOK
        BY WorkerFacts, MpiAssumption DEF MpiInit, TypeOK
    <2>2. \A p \in Processes : pos[p] = 0 /\ run[p] = 1
        BY DEF MpiInit
    <2>3. /\ \A w \in Workers : ~sending[w]
          /\ \A w \in Workers, t \in Tags : channel[w][t] = <<>>
        BY DEF MpiInit
    <2>4. \A w \in Workers, t \in Tags, r \in Runs :
              ~HasSent(w, t, r) /\ ~HasReceived(w, t, r) /\ ~InChannel(w, t, r)
        <3> SUFFICES ASSUME NEW w \in Workers, NEW t \in Tags, NEW r \in Runs
                     PROVE  ~HasSent(w, t, r) /\ ~HasReceived(w, t, r) /\ ~InChannel(w, t, r)
            OBVIOUS
        <3>1. Place[t] \in 1..6 /\ r \in 1..MaxRuns /\ w \in Processes /\ 0 \in Processes
            BY PlacesOfTags, WorkerFacts DEF Positions, Runs
        <3>2. ~HasSent(w, t, r) /\ ~HasReceived(w, t, r)
            BY <2>2, <3>1, MpiAssumption DEF HasSent, HasReceived
        <3> QED
            BY <2>3, <3>2 DEF InChannel
    <2>5. InOrder
        BY <2>3 DEF InOrder
    <2>6. SentInv /\ InTransit /\ ReceivedWasSent
        BY <2>4 DEF SentInv, InTransit, ReceivedWasSent
    <2>7. SendingInv /\ FromInv /\ RunInv /\ MergedInv /\ TotalInv
        BY <2>2, <2>3, WorkerFacts
           DEF MpiInit, SendingInv, FromInv, RunInv, MergedInv, TotalInv, Syncing, Positions
    <2> QED
        BY <2>1, <2>5, <2>6, <2>7 DEF IInv
<1>2. IInv /\ [MpiNext]_mpiVars => IInv'
    <2> SUFFICES ASSUME IInv, [MpiNext]_mpiVars PROVE IInv'
        OBVIOUS
    <2>1. CASE UNCHANGED mpiVars
        BY <2>1, StutterPreserves
    <2>2. ASSUME NEW p \in Processes, ProcessStep(p) PROVE IInv'
        BY <2>2, ExecutePreserves, SkipPreserves, ReturnPreserves, BackendThrowsPreserves
           DEF ProcessStep
    <2>3. ASSUME NEW w \in Workers, WorkerStep(w) PROVE IInv'
        BY <2>3, SendPreserves, SendReturnsPreserves DEF WorkerStep
    <2>4. CASE SupervisorStep
        BY <2>4, ReceiveUndisturbed, ReceiveDisturbed, NextOutputPreserves, TimeoutPreserves
           DEF SupervisorStep
    <2>5. CASE Ended
        BY <2>1, <2>5 DEF Ended
    <2> QED
        BY <2>1, <2>2, <2>3, <2>4, <2>5 DEF MpiNext
<1> QED
    BY <1>1, <1>2, PTL DEF MpiSpec

(* A collected output consists of this run's outputs of all the workers,   *)
(* in the runs up to the first with a failing backend, a message without   *)
(* elements or native results, which are sent under one tag and probed for *)
(* under another (workload_partitioning.cpp:63 and :125).                  *)
THEOREM CollectionCorrect == MpiSpec => []CollectsThisRun
<1>1. IInv => CollectsThisRun
    <2> SUFFICES ASSUME IInv, NEW o \in Tags, Collected(o), Undisturbed(run[0])
                 PROVE  merged[o] = Workers \X {run[0]}
        BY DEF CollectsThisRun
    <2>1. PICK i \in Positions : Outputs[i] = o /\ pos[0] > i
        BY DEF Collected
    <2>2. run[0] \in Runs /\ o \in Synced(run[0]) /\ Place[o] = i /\ pos[0] > Place[o]
        BY <2>1, PlacesOfTags DEF Collected, InRun
    <2>3. pos[0] > 0
        <3>1. pos[0] \in 0..7
            BY WorkerFacts DEF IInv, TypeOK
        <3> QED
            BY <2>1, <3>1 DEF Positions
    <2>4. \A w \in Workers : HasReceived(w, o, run[0])
        BY <2>2 DEF HasReceived
    <2>5. merged[o] = {w \in Workers : HasReceived(w, o, run[0])} \X {run[0]}
        BY <2>2, <2>3 DEF IInv, MergedInv, InRun
    <2> QED
        BY <2>4, <2>5
<1> QED
    BY <1>1, Invariance, PTL

(* In the same runs, and as long as the backends run what they are told    *)
(* to, the collected results hold the shots the user asked for, or one of  *)
(* each process when there are fewer: what shots_for_mpi_process hands out *)
(* adds up, for every number of shots and of processes.                    *)
THEOREM ShotsCorrect == MpiSpec => []AllShotsCollected
<1>1. IInv => AllShotsCollected
    <2> DEFINE sn == plan[run[0]].sn
    <2> SUFFICES ASSUME IInv, Collected("results"), Undisturbed(run[0]), NothingMissing(run[0])
                 PROVE  total = IF sn < N THEN N ELSE sn
        BY DEF AllShotsCollected, NothingMissing
    <2>1. PICK i \in Positions : Outputs[i] = "results" /\ pos[0] > i
        BY DEF Collected
    <2>2. i = 2
        BY <2>1 DEF Positions, Outputs
    <2>3. run[0] \in Runs /\ sn \in Nat
        BY PlanFacts DEF Collected, InRun, IInv
    <2>4. total = ConfiguredBefore(sn, N)
        BY <2>1, <2>2, <2>3 DEF IInv, TotalInv, InRun
    <2> QED
        BY <2>3, <2>4, ConfiguredShares
<1> QED
    BY <1>1, Invariance, PTL
=============================================================================
