----------------------------- MODULE MpiResults -----------------------------
(***************************************************************************)
(* session::run() under MPI.  Every process runs the same program: each    *)
(* run divides the shots, and at its end the workers send their outputs to *)
(* the supervisor, process 0, which probes for one message after another,  *)
(* for at most 30 seconds each, and adds what it receives to its own.      *)
(*                                                                         *)
(* A message stands for the outputs of one run, so a channel is a sequence *)
(* of run numbers: MPI keeps the order of the messages with one source and *)
(* one tag and promises nothing between tags.  A blocking send returns     *)
(* when its message has been received, or earlier if MPI buffers it.       *)
(*                                                                         *)
(* An operator Action_Variation is a mutated form of Action that some      *)
(* property must reject; no specification uses it.                         *)
(***************************************************************************)
EXTENDS Integers, Sequences, FiniteSets

CONSTANTS
    N,         \* MPI processes
    MaxRuns,   \* calls of session::run() by each process
    Settings   \* the settings a run can have

Runs == 1..MaxRuns
Processes == 0..(N - 1)
Workers == 1..(N - 1)

(* What a process can send, in the order of send_results_to_supervisor.    *)
Outputs == <<"shots", "results", "native", "counts", "probabilities", "gradients">>
Positions == 1..6
Tags == {"shots", "results", "native", "counts", "probabilities", "gradients"}

(* A run has sn shots, which it executes or not, for a circuit with        *)
(* parameters or without, and syncs the optional outputs it is asked for.  *)
(* The backend of a fragile run may fail, and its answer be late; that of  *)
(* a process may leave out some of the shots it is told to run.            *)
Setting == [sn : Nat, executes : BOOLEAN, parameters : BOOLEAN, fragile : BOOLEAN,
            missing : [Processes -> Nat],
            optional : SUBSET {"native", "counts", "probabilities", "gradients"}]

ASSUME MpiAssumption ==
    /\ N \in Nat /\ N > 1
    /\ MaxRuns \in Nat
    /\ Settings \subseteq Setting

VARIABLES
    plan,     \* the settings of each run
    run,      \* the run each process is in
    pos,      \* 0 while it executes, then the output it syncs, then 7
    sending,  \* the workers inside a blocking send
    channel,  \* messages from each worker under each tag
    from,     \* the worker the supervisor waits for
    merged,   \* the outputs the supervisor added, by output: <<worker, run>>
    total     \* the shots in the supervisor's results map

supervisorVars == <<from, merged, total>>
mpiVars == <<plan, run, pos, sending, channel, supervisorVars>>

TypeOK ==
    /\ plan \in [Runs -> Settings]
    /\ run \in [Processes -> 1..(MaxRuns + 1)]
    /\ pos \in [Processes -> 0..7]
    /\ sending \in [Workers -> BOOLEAN]
    /\ channel \in [Workers -> [Tags -> Seq(Runs)]]
    /\ from \in 1..N
    /\ merged \in [Tags -> SUBSET (Workers \X Runs)]
    /\ total \in Nat

(* shots_for_mpi_process(N, sn, p): the remainder goes to the workers.     *)
Shots_StrictRemainder(sn, p) == (sn \div N) + (IF p # 0 /\ (sn % N) - p > 0 THEN 1 ELSE 0)
Shots(sn, p) == (sn \div N) + (IF p # 0 /\ (sn % N) - p >= 0 THEN 1 ELSE 0)

(* What the backend of process p is told to run: a process without a share *)
(* runs one shot.                                                          *)
Configured_NoShots(sn, p) == Shots(sn, p)
Configured(sn, p) == IF Shots(sn, p) = 0 THEN 1 ELSE Shots(sn, p)

(* The number of shots in the results map of process p.                    *)
Recorded(p, r) ==
    IF plan[r].executes /\ plan[r].missing[p] < Configured(plan[r].sn, p)
    THEN Configured(plan[r].sn, p) - plan[r].missing[p]
    ELSE 0

(* A packed results map without entries, and packed gradients without      *)
(* parameters, are messages of no elements.                                *)
NoElements(p, r, o) ==
    \/ o \in {"results", "native"} /\ Recorded(p, r) = 0
    \/ o = "gradients" /\ ~plan[r].parameters

Synced(r) == {"shots", "results"} \cup plan[r].optional

(* A run that leaves no message behind: no backend fails or is late, no    *)
(* message is without elements, and no native results are synced, which    *)
(* are sent under one tag and probed for under another.                    *)
Faultless(r) ==
    /\ ~plan[r].fragile
    /\ "native" \notin plan[r].optional
    /\ \A w \in Workers : \A o \in Synced(r) : ~NoElements(w, r, o)

(* Up to run r, nothing was left behind.                                   *)
Undisturbed(r) == \A q \in 1..r : Faultless(q)

InRun(p) == run[p] \in Runs
Syncing(p) == InRun(p) /\ pos[p] \in Positions
Current(p) == Outputs[pos[p]]

MpiInit ==
    /\ plan \in [Runs -> Settings]
    /\ run = [p \in Processes |-> 1]
    /\ pos = [p \in Processes |-> 0]
    /\ sending = [w \in Workers |-> FALSE]
    /\ channel = [w \in Workers |-> [t \in Tags |-> <<>>]]
    /\ from = 1
    /\ merged = [t \in Tags |-> {}]
    /\ total = 0

(* The process has executed its share and post-processed its own outputs.  *)
Execute(p) ==
    /\ InRun(p) /\ pos[p] = 0
    /\ pos' = [pos EXCEPT ![p] = 1]
    /\ IF p = 0
       THEN /\ from' = 1
            /\ merged' = [t \in Tags |-> {}]
            /\ total' = Recorded(0, run[0])
       ELSE UNCHANGED supervisorVars
    /\ UNCHANGED <<plan, run, sending, channel>>

(* An output that was not asked for is neither sent nor received.          *)
Skip(p) ==
    /\ Syncing(p) /\ Current(p) \notin Synced(run[p])
    /\ pos' = [pos EXCEPT ![p] = @ + 1]
    /\ UNCHANGED <<plan, run, sending, channel, supervisorVars>>

Send(w) ==
    /\ Syncing(w) /\ Current(w) \in Synced(run[w]) /\ ~sending[w]
    /\ channel' = [channel EXCEPT ![w][Current(w)] = Append(@, run[w])]
    /\ sending' = [sending EXCEPT ![w] = TRUE]
    /\ UNCHANGED <<plan, run, pos, supervisorVars>>

SendReturns(w) ==
    /\ sending[w]
    /\ sending' = [sending EXCEPT ![w] = FALSE]
    /\ pos' = [pos EXCEPT ![w] = @ + 1]
    /\ UNCHANGED <<plan, run, channel, supervisorVars>>

InChannel(w, o, r) == \E i \in DOMAIN channel[w][o] : channel[w][o][i] = r

(* The cases in which it has to return: the message has been received, or  *)
(* has no elements to wait for.                                            *)
SendCompletes(w) ==
    /\ sending[w]
    /\ InChannel(w, Current(w), run[w]) => NoElements(w, run[w], Current(w))
    /\ SendReturns(w)

(* The tag under which the supervisor probes for an output: the results    *)
(* map's for the native results too.                                       *)
ProbedTag_Shared(o) ==
    CASE o = "native" -> "results" [] o = "probabilities" -> "counts" [] OTHER -> o
ProbedTag(o) == IF o = "native" THEN "results" ELSE o

Waiting == Syncing(0) /\ Current(0) \in Synced(run[0]) /\ from \in Workers
Probed == channel[from][ProbedTag(Current(0))]

(* Add the message to the output.  A message of no elements is probed, but *)
(* never received.                                                         *)
Receive ==
    /\ Waiting /\ Probed # <<>>
    /\ LET o == Current(0)
           t == ProbedTag(o)
           r == Head(Probed)
       IN IF NoElements(from, r, t)
          THEN UNCHANGED <<channel, merged, total>>
          ELSE /\ channel' = [channel EXCEPT ![from][t] = Tail(@)]
               /\ merged' = [merged EXCEPT ![o] = @ \cup {<<from, r>>}]
               /\ total' = IF o = "results" THEN total + Recorded(from, r) ELSE total
    /\ from' = from + 1
    /\ UNCHANGED <<plan, run, pos, sending>>

(* receive_from_others has been through all the workers.                   *)
NextOutput_KeepsFrom ==
    /\ Syncing(0) /\ Current(0) \in Synced(run[0]) /\ from = N
    /\ pos' = [pos EXCEPT ![0] = @ + 1]
    /\ UNCHANGED <<plan, run, sending, channel, supervisorVars>>
NextOutput ==
    /\ Syncing(0) /\ Current(0) \in Synced(run[0]) /\ from = N
    /\ pos' = [pos EXCEPT ![0] = @ + 1]
    /\ from' = 1
    /\ UNCHANGED <<plan, run, sending, channel, merged, total>>

EndRun(p) ==
    /\ run' = [run EXCEPT ![p] = @ + 1]
    /\ pos' = [pos EXCEPT ![p] = 0]
    /\ UNCHANGED <<plan, sending, channel, supervisorVars>>

Return(p) == InRun(p) /\ pos[p] = 7 /\ EndRun(p)

(* The backend fails: run() throws before anything is sent or received,    *)
(* and the program goes on to its next run.                                *)
BackendThrows(p) == InRun(p) /\ plan[run[p]].fragile /\ pos[p] = 0 /\ EndRun(p)

(* 30 seconds without a message: run() throws in the supervisor.  Before   *)
(* anything went wrong, the workers' messages are never that late.         *)
Timeout_OnResultsOnly ==
    Waiting /\ ~Undisturbed(run[0]) /\ Current(0) = "results" /\ Probed = <<>> /\ EndRun(0)
Timeout == Waiting /\ ~Undisturbed(run[0]) /\ Probed = <<>> /\ EndRun(0)

Ended == /\ \A p \in Processes : ~InRun(p)
         /\ UNCHANGED mpiVars

WorkerStep(w) == Send(w) \/ SendReturns(w)
SupervisorStep == Receive \/ NextOutput \/ Timeout
ProcessStep(p) == Execute(p) \/ Skip(p) \/ Return(p) \/ BackendThrows(p)

MpiNext ==
    \/ \E p \in Processes : ProcessStep(p)
    \/ \E w \in Workers : WorkerStep(w)
    \/ SupervisorStep
    \/ Ended

MpiSpec == MpiInit /\ [][MpiNext]_mpiVars

(* Processes keep running, a probe answers or times out, and a send whose  *)
(* message has been received returns.  Buffering is never relied on.       *)
MpiFairness ==
    /\ \A w \in Workers :
          WF_mpiVars(Execute(w) \/ Skip(w) \/ Return(w) \/ Send(w) \/ SendCompletes(w))
    /\ WF_mpiVars(Execute(0) \/ Skip(0) \/ Return(0) \/ SupervisorStep)

MpiFairSpec == MpiSpec /\ MpiFairness

---------------------------------------------------------------------------
(* Properties                                                              *)

(* The supervisor has added output o of every worker.                      *)
Collected(o) ==
    InRun(0) /\ o \in Synced(run[0]) /\ \E i \in Positions : Outputs[i] = o /\ pos[0] > i

(* An output the supervisor has collected is made of the outputs that each *)
(* worker produced in this very run, all of them and no other, until the   *)
(* first run that is not faultless: an early worker's messages of the next *)
(* run are never taken for them, nor are those of other outputs.  That no  *)
(* native results are synced is part of being faultless: their tags differ *)
(* (collect_results_from_mpi_processes, workload_partitioning.cpp:63 and   *)
(* :125), so they are not collected, nor is anything sure after them.      *)
CollectsThisRun ==
    \A o \in Tags :
        Collected(o) /\ Undisturbed(run[0]) => merged[o] = Workers \X {run[0]}

(* Every shot is run by exactly one process and collected once: the        *)
(* results hold the shots the user asked for, or one of each process when  *)
(* there are fewer than processes, as long as the backends run what they   *)
(* are told to (shots_for_mpi_process, configure_backend and session.sn).  *)
AllShotsCollected ==
    Collected("results") /\ Undisturbed(run[0]) =>
        LET now == plan[run[0]]
        IN (\A p \in Processes : now.missing[p] = 0) =>
               total = IF now.sn < N THEN N ELSE now.sn

(* Blocking sends in the order of send_results_to_supervisor and receives  *)
(* in the order of collect_results_from_mpi_processes never wait for each  *)
(* other, even when MPI buffers nothing: every process ends every run up   *)
(* to the first that is not faultless.                                     *)
UndisturbedRunsEnd == \A r \in Runs : Undisturbed(r) ~> \A p \in Processes : run[p] > r

(* Whatever fails, the supervisor's runs end, with results or with an      *)
(* exception: a probe never waits for ever.                                *)
SupervisorRunsEnd == <>(~InRun(0))

(* Both, for the processes the specification is fair to.                   *)
EveryRunEnds == UndisturbedRunsEnd /\ SupervisorRunsEnd
=============================================================================
