----------------------------- MODULE SessionRun -----------------------------
(* session::run() and session::draw_shot() (session.cpp): threads, each with *)
(* a session of its own, that run circuits one after another and draw shots  *)
(* from the results in between.  Sessions meet at one static mutex, which    *)
(* runs on some back ends hold from compilation to execution.                *)
(*                                                                           *)
(* What an output holds is abstracted to the run it came from; the counts    *)
(* of the measured outcomes, which are drawn from, are kept.  Runs on AWS    *)
(* Braket return early and are modelled in JobHandle, MPI in MpiResults and  *)
(* the exchange with hardware in Qdk.                                        *)
EXTENDS Integers, FiniteSets

CONSTANTS
  Sessions,
  Circuits,      \* circuits given as IR trees, shared between sessions
  Parametrised,  \* those of them with free parameters
  Requests,      \* for each session, the settings it may run with, see Request below
  MaxRuns,       \* for each session, how many runs it makes at most
  Shots,         \* sn
  NOutcomes,     \* outcomes are 1 .. NOutcomes, in the order of the map
  Drawers,       \* the sessions whose shots are drawn
  Returned,      \* the counts a back end may return
  Nobody

Outcomes == 1 .. NOutcomes
CountsType == [Outcomes -> 0 .. Shots + 1]
NoCounts == [o \in Outcomes |-> 0]
PerhapsCounts == Returned \cup {NoCounts}

UpTo(counts, o) ==
  LET sum[p \in 0 .. NOutcomes] == IF p = 0 THEN 0 ELSE sum[p - 1] + counts[p]
  IN sum[o]
Total(counts) == UpTo(counts, NOutcomes)

(* The settings of a session that decide what run() does: the class of its   *)
(* back end, its circuit and the switches.  The back ends "wavefunction",    *)
(* qpp and aer, provide the state vector if it is asked for.                 *)
Request ==
  [acc : {"wavefunction", "tnqvm", "open", "hardware"}, circuit : Circuits,
   execute_circuit : BOOLEAN, calc_gradients : BOOLEAN, calc_state_vec : BOOLEAN,
   output_oqm : BOOLEAN, spam : BOOLEAN]

ASSUME SessionAssumption ==
  /\ Nobody \notin Sessions
  /\ Parametrised \subseteq Circuits
  /\ Drawers \subseteq Sessions
  /\ Requests \in [Sessions -> (SUBSET Request) \ {{}}]
  /\ MaxRuns \in [Sessions -> Nat] /\ Shots \in Nat \ {0} /\ NOutcomes \in Nat \ {0}
  /\ Returned \subseteq CountsType

VARIABLES
  shared_mutex,  \* the session that holds the mutex, or Nobody
  stage,         \* where each session is in run()
  children,      \* runs of shifted circuits that are left in run_gradients()
  settings,      \* the settings of the session
  runs,          \* how many runs have passed validate(): the last one's name
  ended,         \* how the last call of run() ended
  buffer,        \* the counts of the execution that is being processed
  perform_SPAM_correction,
  shots_remaining,
  results,       \* the counts that are left to draw from
  source,        \* for each output, the run it is from; 0 if cleared
  reported,      \* the counts in the results when the run ended
  drawn          \* the shots drawn since

control == <<shared_mutex, stage, children>>
outputs == <<results, source>>
drawing == <<shots_remaining, reported, drawn>>
vars == <<control, settings, runs, ended, buffer, perform_SPAM_correction,
          outputs, drawing>>

Output == {"results", "native", "z_op", "state_vec", "all_counts", "gradients", "transpiled"}
Stages == {"idle", "waiting", "building", "executing", "processing", "finishing"}

Init ==
  /\ shared_mutex = Nobody
  /\ stage = [s \in Sessions |-> "idle"]
  /\ children = [s \in Sessions |-> 0]
  /\ settings = [s \in Sessions |-> CHOOSE request \in Requests[s] : TRUE]
  /\ runs = [s \in Sessions |-> 0]
  /\ ended = [s \in Sessions |-> "never run"]
  /\ buffer = [s \in Sessions |-> NoCounts]
  /\ perform_SPAM_correction = [s \in Sessions |-> FALSE]
  /\ shots_remaining = [s \in Sessions |-> 0]
  /\ results = [s \in Sessions |-> NoCounts]
  /\ source = [s \in Sessions |-> [o \in Output |-> 0]]
  /\ reported = [s \in Sessions |-> NoCounts]
  /\ drawn = [s \in Sessions |-> NoCounts]

Asked(s) == settings[s]
Nested(s) == children[s] > 0

(* Only runs on aer, qpp and tnqvm take the lock. *)
Locks(s) == Asked(s).acc \in {"wavefunction", "tnqvm"}

(* Leaving the block of the lock, by its end or by an exception. *)
Unlock(s) == shared_mutex' = IF shared_mutex = s THEN Nobody ELSE shared_mutex

GoTo(s, there) == stage' = [stage EXCEPT ![s] = there]

(***************************************************************************)
(* run()                                                                   *)
(***************************************************************************)

(* validate() refuses the settings, and leaves every output as it was. *)
Refuse(s, request) ==
  /\ stage[s] = "idle"
  /\ runs[s] < MaxRuns[s]
  /\ settings' = [settings EXCEPT ![s] = request]
  /\ ended' = [ended EXCEPT ![s] = "refused"]
  /\ UNCHANGED <<control, runs, buffer, perform_SPAM_correction, outputs, drawing>>

(* Variation: the gradients of the last run are not cleared. *)
Cleared_NotGradients(request) == {"results", "transpiled"}
(* What validate() clears: always the first, the others if they are asked    *)
(* for again.                                                                *)
Cleared(request) ==
  {"results", "transpiled"}
  \cup (IF request.calc_gradients THEN {"all_counts", "gradients"} ELSE {})

(* validate() clears the results before it makes room for the counts of all  *)
(* bit strings, and throws when there is none.                               *)
NoRoom(s, request) ==
  /\ stage[s] = "idle"
  /\ runs[s] < MaxRuns[s]
  /\ request.calc_gradients
  /\ settings' = [settings EXCEPT ![s] = request]
  /\ ended' = [ended EXCEPT ![s] = "refused"]
  /\ results' = [results EXCEPT ![s] = NoCounts]
  /\ reported' = [reported EXCEPT ![s] = NoCounts]
  /\ drawn' = [drawn EXCEPT ![s] = NoCounts]
  /\ source' = [source EXCEPT ![s] = [o \in Output |->
                  IF o \in {"results", "transpiled", "all_counts"} THEN 0 ELSE @[o]]]
  /\ perform_SPAM_correction' = [perform_SPAM_correction EXCEPT ![s] = @ \/ request.spam]
  /\ UNCHANGED <<control, runs, buffer, shots_remaining>>

(* validate() accepts them.  A correction matrix, once seen, stays in force. *)
Run(s, request) ==
  /\ stage[s] = "idle"
  /\ runs[s] < MaxRuns[s]
  /\ settings' = [settings EXCEPT ![s] = request]
  /\ runs' = [runs EXCEPT ![s] = @ + 1]
  /\ perform_SPAM_correction' = [perform_SPAM_correction EXCEPT ![s] = @ \/ request.spam]
  /\ results' = [results EXCEPT ![s] = NoCounts]
  /\ source' = [source EXCEPT ![s] = [o \in Output |-> IF o \in Cleared(request) THEN 0 ELSE @[o]]]
  /\ shots_remaining' = [shots_remaining EXCEPT ![s] = Shots]
  /\ reported' = [reported EXCEPT ![s] = NoCounts]
  /\ drawn' = [drawn EXCEPT ![s] = NoCounts]
  /\ GoTo(s, "waiting")
  /\ UNCHANGED <<shared_mutex, children, ended, buffer>>

(* Variation: the lock is taken from whoever holds it. *)
Lock_Unchecked(s) ==
  /\ stage[s] = "waiting"
  /\ shared_mutex' = IF Locks(s) THEN s ELSE shared_mutex
  /\ GoTo(s, "building")
  /\ UNCHANGED <<children, settings, runs, ended, buffer, perform_SPAM_correction,
                 outputs, drawing>>
Lock(s) ==
  /\ stage[s] = "waiting"
  /\ IF Locks(s)
     THEN /\ shared_mutex = Nobody
          /\ shared_mutex' = s
     ELSE UNCHANGED shared_mutex
  /\ GoTo(s, "building")
  /\ UNCHANGED <<children, settings, runs, ended, buffer, perform_SPAM_correction,
                 outputs, drawing>>

(* Placement, optimisation and compilation. *)
Build(s) ==
  /\ stage[s] = "building"
  /\ GoTo(s, "executing")
  /\ UNCHANGED <<shared_mutex, children, settings, runs, ended, buffer,
                 perform_SPAM_correction, outputs, drawing>>

(* Variation: the lock is held over the evaluation of the results. *)
Execute_KeepsLock(s, counts) ==
  /\ stage[s] = "executing"
  /\ ~Asked(s).execute_circuit => counts = NoCounts
  /\ Asked(s).acc # "hardware" => Total(counts) \in {0, Shots}
  /\ buffer' = [buffer EXCEPT ![s] = counts]
  /\ GoTo(s, "processing")
  /\ UNCHANGED <<shared_mutex, children, settings, runs, ended, perform_SPAM_correction,
                 outputs, drawing>>
(* The back end returns counts, or none; hardware perhaps fewer than it was  *)
(* asked for.  Then the lock is given up.                                    *)
Execute(s, counts) ==
  /\ stage[s] = "executing"
  /\ ~Asked(s).execute_circuit => counts = NoCounts
  /\ Asked(s).acc # "hardware" => Total(counts) \in {0, Shots}
  /\ buffer' = [buffer EXCEPT ![s] = counts]
  /\ Unlock(s)
  /\ GoTo(s, "processing")
  /\ UNCHANGED <<children, settings, runs, ended, perform_SPAM_correction,
                 outputs, drawing>>

(* Two circuits are run for the gradient of a parameter. *)
Shifted(s) ==
  IF Asked(s).execute_circuit /\ Asked(s).calc_gradients /\ Asked(s).circuit \in Parametrised
  THEN 2
  ELSE 0

(* process_run_result(): the outputs the back end's answer gives. *)
Filled(s) ==
  LET counts == buffer[s] # NoCounts /\ Asked(s).execute_circuit
  IN (IF counts THEN {"results", "z_op"} ELSE {})
     \cup (IF counts /\ Asked(s).calc_gradients THEN {"all_counts"} ELSE {})
     \cup (IF Asked(s).execute_circuit /\ Asked(s).calc_gradients /\ Shifted(s) = 0
           THEN {"gradients"}
           ELSE {})
     \cup (IF Asked(s).calc_state_vec /\ Asked(s).acc = "wavefunction" THEN {"state_vec"} ELSE {})

Process(s) ==
  /\ stage[s] = "processing"
  /\ ~Nested(s)
  /\ results' = IF "results" \in Filled(s) THEN [results EXCEPT ![s] = buffer[s]] ELSE results
  /\ source' = [source EXCEPT ![s] = [o \in Output |-> IF o \in Filled(s) THEN runs[s] ELSE @[o]]]
  /\ children' = [children EXCEPT ![s] = Shifted(s)]
  /\ GoTo(s, IF Shifted(s) > 0 THEN "waiting" ELSE "finishing")
  /\ buffer' = [buffer EXCEPT ![s] = NoCounts]
  /\ UNCHANGED <<shared_mutex, settings, runs, ended, perform_SPAM_correction,
                 drawing>>

(* The run of a shifted circuit, in a copy of the session, ends. *)
ProcessNested(s) ==
  /\ stage[s] = "processing"
  /\ Nested(s)
  /\ children' = [children EXCEPT ![s] = @ - 1]
  /\ IF children[s] > 1
     THEN /\ GoTo(s, "waiting")
          /\ UNCHANGED source
     ELSE /\ GoTo(s, "finishing")
          /\ source' = [source EXCEPT ![s]["gradients"] = runs[s]]
  /\ buffer' = [buffer EXCEPT ![s] = NoCounts]
  /\ UNCHANGED <<shared_mutex, settings, runs, ended, perform_SPAM_correction,
                 results, drawing>>

(* The native gates and the correction of the counts.  Corrected counts are  *)
(* rounded one by one, so their sum may be off; of no counts at all, the     *)
(* correction reads past the end of the map and anything may come.           *)
Corrections(s) ==
  IF perform_SPAM_correction[s]
  THEN {counts \in Returned : results[s] # NoCounts => counts # NoCounts}
  ELSE {results[s]}

Return(s, counts) ==
  /\ stage[s] = "finishing"
  /\ counts \in Corrections(s)
  /\ results' = [results EXCEPT ![s] = counts]
  /\ source' = [source EXCEPT ![s]["transpiled"] = IF Asked(s).output_oqm THEN runs[s] ELSE @,
                              ![s]["native"] = IF perform_SPAM_correction[s] THEN runs[s] ELSE @]
  /\ reported' = [reported EXCEPT ![s] = counts]
  /\ ended' = [ended EXCEPT ![s] = "returned"]
  /\ GoTo(s, "idle")
  /\ UNCHANGED <<shared_mutex, children, settings, runs, buffer,
                 perform_SPAM_correction, shots_remaining, drawn>>

Throw(s) ==
  /\ stage[s] # "idle"
  /\ stage[s] = "finishing" => Asked(s).output_oqm
  /\ Unlock(s)
  /\ children' = [children EXCEPT ![s] = 0]
  /\ ended' = [ended EXCEPT ![s] = "threw"]
  /\ reported' = [reported EXCEPT ![s] = results[s]]
  /\ GoTo(s, "idle")
  /\ buffer' = [buffer EXCEPT ![s] = NoCounts]
  /\ UNCHANGED <<settings, runs, perform_SPAM_correction, outputs,
                 shots_remaining, drawn>>

(***************************************************************************)
(* draw_shot()                                                             *)
(***************************************************************************)

(* Variation: an index is taken for the number of shots before it and one more. *)
Hit_Later(counts, index) == {o \in Outcomes : counts[o] > 0 /\ UpTo(counts, o) > index + 1}
(* The outcome the shot with this index is, if there is one: the first at    *)
(* which the counts so far are at least the index.                           *)
Hit(counts, index) == {o \in Outcomes : counts[o] > 0 /\ UpTo(counts, o) >= index}
Drawn(counts, index) == {o \in Hit(counts, index) : \A p \in Hit(counts, index) : o <= p}

(* An empty bit vector is drawn, and counted, when there is none. *)
Draw(s, index) ==
  /\ s \in Drawers
  /\ stage[s] = "idle"
  /\ index < shots_remaining[s]
  /\ LET hit == Drawn(results[s], index)
     IN /\ results' = [results EXCEPT ![s] = [o \in Outcomes |-> IF o \in hit THEN @[o] - 1 ELSE @[o]]]
        /\ drawn' = [drawn EXCEPT ![s] = [o \in Outcomes |-> IF o \in hit THEN @[o] + 1 ELSE @[o]]]
  /\ shots_remaining' = [shots_remaining EXCEPT ![s] = @ - 1]
  /\ UNCHANGED <<control, settings, runs, ended, buffer, perform_SPAM_correction,
                 source, reported>>

Next ==
  \E s \in Sessions :
    \/ \E request \in Requests[s] : Refuse(s, request) \/ NoRoom(s, request) \/ Run(s, request)
    \/ Lock(s)
    \/ Build(s)
    \/ \E counts \in PerhapsCounts : Execute(s, counts)
    \/ Process(s)
    \/ ProcessNested(s)
    \/ \E counts \in PerhapsCounts : Return(s, counts)
    \/ Throw(s)
    \/ \E index \in 0 .. Shots - 1 : Draw(s, index)

Spec == Init /\ [][Next]_vars

(* A thread inside run() goes on; one that waits for the mutex gets it when  *)
(* it stays free (the number of runs is finite, so no one is overtaken for   *)
(* ever).  Nobody has to start a run or to draw a shot.                      *)
Fairness ==
  \A s \in Sessions :
    /\ WF_vars(Lock(s))
    /\ WF_vars(Build(s))
    /\ WF_vars(\E counts \in PerhapsCounts : Execute(s, counts))
    /\ WF_vars(Process(s) \/ ProcessNested(s))
    /\ WF_vars(\E counts \in PerhapsCounts : Return(s, counts))

FairSpec == Spec /\ Fairness

(***************************************************************************)
(* Properties.                                                             *)
(***************************************************************************)

(* Two runs on back ends that need the lock are never between compilation    *)
(* and execution at the same time, nested runs and exceptions included.      *)
InSection(s) == Locks(s) /\ stage[s] \in {"building", "executing"}
LockedRunsExclusive ==
  \A s, t \in Sessions : InSection(s) /\ InSection(t) => s = t

(* After a run, the results, the transpiled circuit and, if it was asked for *)
(* gradients, the counts of all bit strings and the gradients of a session   *)
(* are of that run or cleared: none of an earlier run shines through, in     *)
(* whatever way the settings changed in between and wherever the run threw.  *)
(* Without having been asked for, the last two may be older, but then their  *)
(* getters refuse (session_getter_setter.cpp:10).  The expectation of Z, the *)
(* native results and the state vector are not cleared, and the getters of   *)
(* the first two never refuse: they may be older unless the run returned and *)
(* had counts, a correction or a back end that provides the state vector.    *)
(* Then they are of this run too, and its outputs agree with one another.    *)
OutputsOfThisRun ==
  \A s \in Sessions :
    LET from == source[s]
        q == Asked(s)
        this == {0, runs[s]}
    IN stage[s] = "idle" /\ ended[s] \in {"returned", "threw"} =>
         /\ from["results"] \in this
         /\ from["transpiled"] \in this
         /\ q.calc_gradients => from["all_counts"] \in this /\ from["gradients"] \in this
         /\ ended[s] = "returned" =>
              /\ from["results"] = runs[s] => from["z_op"] = runs[s]
              /\ perform_SPAM_correction[s] => from["native"] = runs[s]
              /\ q.calc_state_vec /\ q.acc = "wavefunction" => from["state_vec"] = runs[s]
              /\ q.output_oqm => from["transpiled"] = runs[s]
              /\ q.calc_gradients /\ q.execute_circuit =>
                   /\ from["gradients"] = runs[s]
                   /\ from["all_counts"] = from["results"]

(* Every shot is drawn exactly once: when the results of a run held all its  *)
(* shots, those drawn since and those left are the results of the run, and   *)
(* draw_shot() refuses when and only when none is left.                      *)
ShotsAddUp ==
  \A s \in Sessions :
    stage[s] = "idle" /\ Total(reported[s]) = Shots =>
      /\ reported[s] = [o \in Outcomes |-> results[s][o] + drawn[s][o]]
      /\ shots_remaining[s] = Total(results[s])

(* Every call of run() ends: a nested run can take the lock, because the     *)
(* outer one has given it up.                                                *)
EveryRunEnds == \A s \in Sessions : stage[s] # "idle" ~> stage[s] = "idle"
=============================================================================
