--------------------------- MODULE SessionProofs ----------------------------
(***************************************************************************)
(* Theorems about SessionRun, for every number of sessions, of runs and of *)
(* shots and all settings: the lock is exclusive, the outputs of a session *)
(* that a run clears or fills are those of its last run, and every shot is *)
(* drawn once.  Then, about NoiseModel, that the placement of a session's  *)
(* noise model ends the program only over a pair of qubits that was given  *)
(* noise and not connected.                                                *)
(***************************************************************************)
EXTENDS SessionRun, NoiseModel, InductionFacts

(* What the argument needs of the types. *)
Types ==
  /\ stage \in [Sessions -> Stages]
  /\ children \in [Sessions -> 0 .. 2]
  /\ settings \in [Sessions -> Request]
  /\ source \in [Sessions -> [Output -> Nat]]
  /\ runs \in [Sessions -> Nat]
  /\ perform_SPAM_correction \in [Sessions -> BOOLEAN]

EndType == DOMAIN ended = Sessions

(* Who is in the section of the lock holds it. *)
Held == \A s \in Sessions : InSection(s) => shared_mutex = s

(* The outputs in the course of a run.  Before its own counts are processed  *)
(* what was cleared is clear, and also while no shifted circuit is left to   *)
(* run; afterwards the outputs agree.                                        *)
Before(s) == stage[s] \in {"waiting", "building", "executing", "processing"} /\ children[s] = 0
After(s) == stage[s] = "finishing" \/ (stage[s] # "idle" /\ children[s] # 0)

ClearBefore(s) ==
  Before(s) =>
    /\ source[s]["results"] = 0
    /\ settings[s].calc_gradients =>
         source[s]["all_counts"] = 0 /\ source[s]["gradients"] = 0

AgreeAfter(s) ==
  After(s) =>
    /\ source[s]["results"] \in {0, runs[s]}
    /\ source[s]["results"] = runs[s] => source[s]["z_op"] = runs[s]
    /\ settings[s].calc_state_vec /\ settings[s].acc = "wavefunction" =>
         source[s]["state_vec"] = runs[s]
    /\ settings[s].calc_gradients =>
         /\ source[s]["all_counts"] = source[s]["results"]
         /\ source[s]["gradients"] \in {0, runs[s]}
         /\ settings[s].execute_circuit /\ stage[s] = "finishing" =>
              source[s]["gradients"] = runs[s]

InRun(s) ==
  /\ stage[s] # "idle" => runs[s] # 0 /\ source[s]["transpiled"] = 0
  /\ stage[s] \in {"idle", "finishing"} => children[s] = 0
  /\ ClearBefore(s)
  /\ AgreeAfter(s)

(* OutputsOfThisRun, of one session. *)
OfThisRun(s) ==
  stage[s] = "idle" /\ ended[s] \in {"returned", "threw"} =>
    /\ source[s]["results"] \in {0, runs[s]}
    /\ source[s]["transpiled"] \in {0, runs[s]}
    /\ settings[s].calc_gradients =>
         source[s]["all_counts"] \in {0, runs[s]} /\ source[s]["gradients"] \in {0, runs[s]}
    /\ ended[s] = "returned" =>
         /\ source[s]["results"] = runs[s] => source[s]["z_op"] = runs[s]
         /\ perform_SPAM_correction[s] => source[s]["native"] = runs[s]
         /\ settings[s].calc_state_vec /\ settings[s].acc = "wavefunction" =>
              source[s]["state_vec"] = runs[s]
         /\ settings[s].output_oqm => source[s]["transpiled"] = runs[s]
         /\ settings[s].calc_gradients /\ settings[s].execute_circuit =>
              /\ source[s]["gradients"] = runs[s]
              /\ source[s]["all_counts"] = source[s]["results"]

Outputs == \A s \in Sessions : InRun(s) /\ OfThisRun(s)

Inv == Types /\ EndType /\ Held /\ Outputs

-----------------------------------------------------------------------------
LEMMA InitInv == Init => Inv
<1> SUFFICES ASSUME Init PROVE Inv
  OBVIOUS
<1>1. ASSUME NEW s \in Sessions PROVE (CHOOSE request \in Requests[s] : TRUE) \in Request
  <2>1. Requests[s] \subseteq Request /\ Requests[s] # {}
    BY SessionAssumption
  <2>2. \E request \in Requests[s] : TRUE
    BY <2>1, Zenon
  <2> QED
    BY <2>1, <2>2, Zenon
<1>2. Types
  <2>1. settings \in [Sessions -> Request]
    BY <1>1 DEF Init
  <2>2. source \in [Sessions -> [Output -> Nat]]
    BY DEF Init
  <2>3. /\ stage \in [Sessions -> Stages]
        /\ runs \in [Sessions -> Nat]
    BY DEF Init, Stages
  <2>4. children \in [Sessions -> 0 .. 2]
    <3>1. children = [s \in Sessions |-> 0]
      BY DEF Init
    <3>2. 0 \in 0 .. 2
      OBVIOUS
    <3> QED
      BY <3>1, <3>2, Zenon
  <2>5. perform_SPAM_correction \in [Sessions -> BOOLEAN]
    BY DEF Init
  <2> QED
    BY <2>1, <2>2, <2>3, <2>4, <2>5 DEF Types
<1>3. Held
  BY SessionAssumption DEF Init, Held, InSection
<1>4. Outputs
  BY DEF Init, Outputs, InRun, ClearBefore, AgreeAfter, Before, After, OfThisRun, Output
<1>5. EndType
  BY DEF Init, EndType
<1> QED
  BY <1>2, <1>3, <1>4, <1>5 DEF Inv

(* What the steps of run() have in common: a session s moves, the others     *)
(* keep everything.                                                          *)
LEMMA OthersKeep ==
  ASSUME Outputs, Types, NEW s \in Sessions,
         \A t \in Sessions \ {s} :
           /\ stage'[t] = stage[t] /\ children'[t] = children[t]
           /\ settings'[t] = settings[t] /\ source'[t] = source[t]
           /\ runs'[t] = runs[t] /\ ended'[t] = ended[t]
           /\ perform_SPAM_correction'[t] = perform_SPAM_correction[t],
         InRun(s)', OfThisRun(s)'
  PROVE  Outputs'
<1> SUFFICES ASSUME NEW t \in Sessions, t # s PROVE InRun(t)' /\ OfThisRun(t)'
  BY DEF Outputs
<1>1. InRun(t) /\ OfThisRun(t)
  BY DEF Outputs
<1> QED
  BY <1>1 DEF InRun, ClearBefore, AgreeAfter, Before, After, OfThisRun

(* The disjuncts of Next, as steps of a session. *)
Enters(s) ==
  \E request \in Requests[s] : Refuse(s, request) \/ NoRoom(s, request) \/ Run(s, request)
Leaves(s) == \E counts \in PerhapsCounts : Execute(s, counts) \/ Return(s, counts)
Draws(s) == \E index \in 0 .. Shots - 1 : Draw(s, index)
Step(s) ==
  \/ Enters(s) \/ Lock(s) \/ Build(s) \/ Process(s) \/ ProcessNested(s) \/ Throw(s)
  \/ Leaves(s) \/ Draws(s)

LEMMA NextIsStep == Next => \E s \in Sessions : Step(s)
BY DEF Next, Step, Enters, Leaves, Draws

LEMMA TypesStep ==
  ASSUME Types, NEW s \in Sessions, Step(s)
  PROVE  Types'
<1> USE DEF Types, control, outputs, drawing, GoTo, Stages
<1>1. ASSUME NEW request \in Requests[s],
             Refuse(s, request) \/ NoRoom(s, request) \/ Run(s, request)
      PROVE  Types'
  <2>1. request \in Request
    BY SessionAssumption
  <2>2. request.spam \in BOOLEAN
    BY <2>1 DEF Request
  <2> HIDE DEF Stages
  <2>3. "idle" \in Stages /\ "waiting" \in Stages
    BY DEF Stages
  <2>4. CASE Refuse(s, request)
    BY <2>1, <2>4 DEF Refuse
  <2>5. CASE NoRoom(s, request)
    BY <2>1, <2>2, <2>5 DEF NoRoom
  <2>6. CASE Run(s, request)
    BY <2>1, <2>2, <2>3, <2>6 DEF Run
  <2> QED
    BY <1>1, <2>4, <2>5, <2>6
<1>2. CASE Lock(s)
  BY <1>2 DEF Lock
<1>3. CASE Build(s)
  BY <1>3 DEF Build
<1>4. CASE Process(s)
  BY <1>4 DEF Process, Shifted
<1>5. CASE ProcessNested(s)
  <2>1. source' \in [Sessions -> [Output -> Nat]]
    BY <1>5, SMTT(30) DEF ProcessNested, Output
  <2>2. children' \in [Sessions -> 0 .. 2]
    <3>1. children[s] - 1 \in 0 .. 2
      BY <1>5 DEF ProcessNested, Nested
    <3> QED
      BY <1>5, <3>1 DEF ProcessNested
  <2>3. stage' \in [Sessions -> Stages]
    BY <1>5 DEF ProcessNested
  <2>4. UNCHANGED <<settings, runs, perform_SPAM_correction>>
    BY <1>5 DEF ProcessNested
  <2> QED
    BY <2>1, <2>2, <2>3, <2>4
<1>6. CASE Throw(s)
  BY <1>6 DEF Throw
<1>7. ASSUME NEW counts \in PerhapsCounts, Execute(s, counts) PROVE Types'
  BY <1>7 DEF Execute
<1>8. ASSUME NEW counts \in PerhapsCounts, Return(s, counts) PROVE Types'
  <2>1. source' \in [Sessions -> [Output -> Nat]]
    BY <1>8, SMTT(30) DEF Return, Output
  <2>2. stage' \in [Sessions -> Stages]
    BY <1>8 DEF Return
  <2>3. UNCHANGED <<children, settings, runs, perform_SPAM_correction>>
    BY <1>8 DEF Return
  <2> QED
    BY <2>1, <2>2, <2>3
<1>9. ASSUME NEW index \in 0 .. Shots - 1, Draw(s, index) PROVE Types'
  BY <1>9 DEF Draw
<1> QED
  BY <1>1, <1>2, <1>3, <1>4, <1>5, <1>6, <1>7, <1>8, <1>9 DEF Step, Enters, Leaves, Draws

(* Nobody enters the section but by Lock, and nobody changes settings there. *)
LEMMA HeldStep ==
  ASSUME Types, Held, NEW s \in Sessions, Step(s)
  PROVE  Held'
<1> USE DEF Types, Held, InSection, Locks, Asked, control, outputs, drawing, GoTo
<1>1. CASE Enters(s)
  BY <1>1 DEF Enters, Refuse, NoRoom, Run
<1>2. CASE Lock(s)
  BY <1>2, SessionAssumption DEF Lock
<1>3. CASE Build(s)
  BY <1>3 DEF Build
<1>4. CASE Process(s)
  BY <1>4 DEF Process
<1>5. CASE ProcessNested(s)
  BY <1>5 DEF ProcessNested
<1>6. CASE Throw(s)
  BY <1>6 DEF Throw, Unlock
<1>7. CASE Leaves(s)
  BY <1>7 DEF Leaves, Execute, Return, Unlock
<1>8. CASE Draws(s)
  BY <1>8 DEF Draws, Draw
<1> QED
  BY <1>1, <1>2, <1>3, <1>4, <1>5, <1>6, <1>7, <1>8 DEF Step

LEMMA EndStep == ASSUME EndType, NEW s \in Sessions, Step(s) PROVE EndType'
<1> USE DEF EndType
<1>1. CASE Enters(s)
  BY <1>1 DEF Enters, Refuse, NoRoom, Run
<1>2. CASE Lock(s) \/ Build(s) \/ Process(s) \/ ProcessNested(s)
  BY <1>2 DEF Lock, Build, Process, ProcessNested
<1>3. CASE Throw(s)
  BY <1>3 DEF Throw
<1>4. CASE Leaves(s)
  BY <1>4 DEF Leaves, Execute, Return
<1>5. CASE Draws(s)
  BY <1>5 DEF Draws, Draw
<1> QED
  BY <1>1, <1>2, <1>3, <1>4, <1>5 DEF Step

(* A step of one session leaves the others alone. *)
LEMMA Frame ==
  ASSUME Types, EndType, NEW s \in Sessions, Step(s), NEW t \in Sessions \ {s}
  PROVE  /\ stage'[t] = stage[t] /\ children'[t] = children[t]
         /\ settings'[t] = settings[t] /\ source'[t] = source[t]
         /\ runs'[t] = runs[t] /\ ended'[t] = ended[t]
         /\ perform_SPAM_correction'[t] = perform_SPAM_correction[t]
<1> USE DEF Types, EndType, control, outputs, drawing, GoTo
<1>1. CASE Enters(s)
  BY <1>1 DEF Enters, Refuse, NoRoom, Run
<1>2. CASE Lock(s) \/ Build(s)
  BY <1>2 DEF Lock, Build
<1>3. CASE Process(s) \/ ProcessNested(s)
  BY <1>3 DEF Process, ProcessNested
<1>4. CASE Throw(s)
  BY <1>4 DEF Throw
<1>5. CASE Leaves(s)
  BY <1>5 DEF Leaves, Execute, Return
<1>6. CASE Draws(s)
  BY <1>6 DEF Draws, Draw
<1> QED
  BY <1>1, <1>2, <1>3, <1>4, <1>5, <1>6 DEF Step

(* The part of the session that moves, one step at a time. *)
LEMMA OwnOutputs ==
  ASSUME Types, Types', EndType, NEW s \in Sessions, InRun(s), OfThisRun(s), Step(s)
  PROVE  InRun(s)' /\ OfThisRun(s)'
<1> DEFINE Own == InRun(s) /\ OfThisRun(s)
<1> USE DEF Types, EndType, InRun, ClearBefore, AgreeAfter, Before, After, OfThisRun, Asked, GoTo,
            control, outputs, drawing
<1>1. ASSUME NEW request \in Requests[s], Refuse(s, request) PROVE Own'
  BY <1>1 DEF Refuse
<1>2. ASSUME NEW request \in Requests[s], NoRoom(s, request) PROVE Own'
  BY <1>2 DEF NoRoom
<1>3. ASSUME NEW request \in Requests[s], Run(s, request) PROVE Own'
  BY <1>3 DEF Run, Cleared, Output
<1>4. CASE Lock(s)
  BY <1>4 DEF Lock
<1>5. CASE Build(s)
  BY <1>5 DEF Build
<1>6. CASE Process(s)
  BY <1>6 DEF Process, Filled, Shifted, Nested, Output
<1>7. CASE ProcessNested(s)
  BY <1>7 DEF ProcessNested, Nested, Output
<1>8. CASE Throw(s)
  <2>1. stage[s] \in Stages \ {"idle"}
    BY <1>8 DEF Throw
  <2>2. Before(s) \/ After(s)
    BY <2>1 DEF Stages
  <2>3. /\ source[s]["results"] \in {0, runs[s]} /\ source[s]["transpiled"] = 0
        /\ settings[s].calc_gradients =>
             source[s]["all_counts"] \in {0, runs[s]} /\ source[s]["gradients"] \in {0, runs[s]}
    BY <2>1, <2>2
  <2>4. /\ stage'[s] = "idle" /\ ended'[s] = "threw" /\ children'[s] = 0
        /\ UNCHANGED <<settings, runs, source, perform_SPAM_correction>>
    BY <1>8 DEF Throw
  <2> QED
    BY <2>3, <2>4
<1>9. ASSUME NEW counts \in PerhapsCounts, Execute(s, counts) PROVE Own'
  BY <1>9 DEF Execute
<1>10. ASSUME NEW counts \in PerhapsCounts, Return(s, counts) PROVE Own'
  BY <1>10 DEF Return, Output
<1>11. CASE Draws(s)
  BY <1>11 DEF Draws, Draw
<1> QED
  BY <1>1, <1>2, <1>3, <1>4, <1>5, <1>6, <1>7, <1>8, <1>9, <1>10, <1>11
  DEF Step, Enters, Leaves

-----------------------------------------------------------------------------
(* The inductive invariant: who is in the section of the lock holds it, and  *)
(* the outputs are cleared before the counts of a run and agree with one     *)
(* another after.                                                            *)
THEOREM SessionInvariance == Spec => []Inv
<1>1. Init => Inv
  BY InitInv
<1>2. Inv /\ [Next]_vars => Inv'
  <2> SUFFICES ASSUME Inv, [Next]_vars PROVE Inv'
    OBVIOUS
  <2>1. CASE Next
    <3>1. PICK s \in Sessions : Step(s)
      BY <2>1, NextIsStep
    <3>2. Types' /\ EndType' /\ Held'
      BY <3>1, TypesStep, EndStep, HeldStep DEF Inv
    <3>3. InRun(s)' /\ OfThisRun(s)'
      <4>1. InRun(s) /\ OfThisRun(s)
        BY DEF Inv, Outputs
      <4> QED
        BY <3>1, <3>2, <4>1, OwnOutputs DEF Inv
    <3>4. Outputs'
      <4>1. ASSUME NEW t \in Sessions \ {s}
            PROVE  /\ stage'[t] = stage[t] /\ children'[t] = children[t]
                   /\ settings'[t] = settings[t] /\ source'[t] = source[t]
                   /\ runs'[t] = runs[t] /\ ended'[t] = ended[t]
                   /\ perform_SPAM_correction'[t] = perform_SPAM_correction[t]
        BY <3>1, Frame DEF Inv
      <4> QED
        BY <3>3, <4>1, OthersKeep DEF Inv
    <3> QED
      BY <3>2, <3>4 DEF Inv
  <2>2. CASE UNCHANGED vars
    BY <2>2 DEF vars, control, outputs, drawing, Inv, Types, EndType, Held, InSection, Asked,
                Locks, Outputs, InRun, ClearBefore, AgreeAfter, Before, After,
                OfThisRun
  <2> QED
    BY <2>1, <2>2
<1> QED
  BY <1>1, <1>2, PTL DEF Spec

(* Two runs that need the lock are never in its section at the same time,    *)
(* for every number of sessions and of runs (session.cpp:1069).              *)
THEOREM LockIsExclusive == Spec => []LockedRunsExclusive
<1>1. Inv => LockedRunsExclusive
  BY DEF Inv, Held, LockedRunsExclusive
<1> QED
  BY <1>1, SessionInvariance, PTL

(* Results, transpiled circuit, counts of all bit strings and gradients are  *)
(* those of a session's last run or cleared, whatever the settings of its    *)
(* runs and wherever they threw; expectation, native results and state       *)
(* vector, which nothing clears, are once a run that provides them returned  *)
(* (session.cpp:730, 1211).                                                  *)
THEOREM OutputsAreOfThisRun == Spec => []OutputsOfThisRun
<1>1. Inv => OutputsOfThisRun
  BY DEF Inv, Outputs, OfThisRun, OutputsOfThisRun, Asked
<1> QED
  BY <1>1, SessionInvariance, PTL

-----------------------------------------------------------------------------
(* Sums of counts.                                                           *)
Counts == [Outcomes -> Nat]
UpToN == 0 .. NOutcomes

LEMMA SumSteps ==
  ASSUME NEW counts \in Counts
  PROVE  /\ UpTo(counts, 0) = 0
         /\ \A o \in Outcomes : UpTo(counts, o) = UpTo(counts, o - 1) + counts[o]
         /\ \A o \in UpToN : UpTo(counts, o) \in Nat
<1> DEFINE Body(f) == [p \in 0 .. NOutcomes |-> IF p = 0 THEN 0 ELSE f[p - 1] + counts[p]]
<1> DEFINE sum == CHOOSE f : f = Body(f)
<1>1. NOutcomes \in Nat
  BY SessionAssumption
<1>2. \E f : f = Body(f) /\ f \in [UpToN -> Nat]
  <2> DEFINE step == [q \in Nat \X (1 .. NOutcomes) |-> q[1] + counts[q[2]]]
  <2>1. step \in [Nat \X (1 .. NOutcomes) -> Nat]
    BY DEF Counts, Outcomes
  <2>2. \A n \in Nat, p \in 1 .. NOutcomes : step[<<n, p>>] = n + counts[p]
    OBVIOUS
  <2> HIDE DEF step
  <2>3. PICK f \in [0 .. NOutcomes -> Nat] : Recursion(f, NOutcomes, 0, step)
    <3>1. 0 \in Nat
      OBVIOUS
    <3> QED
      BY <1>1, <2>1, <3>1, RecursionOverInterval, Zenon
  <2>4. ASSUME NEW p \in 0 .. NOutcomes, p # 0 PROVE f[p] = f[p - 1] + counts[p]
    <3>1. p \in 1 .. NOutcomes /\ f[p - 1] \in Nat
      BY <1>1, <2>4
    <3> QED
      BY <2>2, <2>3, <3>1 DEF Recursion
  <2>5. f = Body(f)
    BY <1>1, <2>3, <2>4 DEF Recursion
  <2> QED
    BY <2>3, <2>5 DEF UpToN
<1>3. sum = Body(sum)
  BY <1>2
<1>4. \A o \in UpToN : UpTo(counts, o) = sum[o]
  BY DEF UpTo
<1>5. sum[0] = 0 /\ \A o \in Outcomes : sum[o] = sum[o - 1] + counts[o]
  <2> HIDE DEF sum
  <2>1. ASSUME NEW o \in UpToN PROVE sum[o] = IF o = 0 THEN 0 ELSE sum[o - 1] + counts[o]
    BY <1>3 DEF UpToN
  <2>2. 0 \in UpToN /\ \A o \in Outcomes : o \in UpToN /\ o # 0
    BY <1>1 DEF UpToN, Outcomes
  <2> QED
    BY <2>1, <2>2
<1>6. \A o \in UpToN : sum[o] \in Nat
  <2> DEFINE S == {o \in Nat : o \in UpToN => sum[o] \in Nat}
  <2> HIDE DEF sum
  <2>1. S \in SUBSET Nat /\ 0 \in S
    BY <1>5
  <2>2. ASSUME NEW i \in S, i < NOutcomes PROVE i + 1 \in S
    <3>1. i + 1 \in Outcomes /\ (i + 1) - 1 = i /\ i \in UpToN
      BY <1>1, <2>2 DEF Outcomes, UpToN
    <3>2. sum[i + 1] = sum[i] + counts[i + 1] /\ counts[i + 1] \in Nat
      BY <1>5, <3>1 DEF Counts
    <3> QED
      BY <3>1, <3>2
  <2> HIDE DEF S
  <2>3. 0 .. NOutcomes \subseteq S
    BY <1>1, <2>1, <2>2, Induction
  <2> QED
    BY <2>3 DEF S, UpToN
<1> HIDE DEF sum
<1> QED
  BY <1>1, <1>4, <1>5, <1>6 DEF UpToN, Outcomes

LEMMA NoCountsTotal == NoCounts \in Counts /\ Total(NoCounts) = 0
<1>1. NoCounts \in Counts /\ \A o \in Outcomes : NoCounts[o] = 0
  BY DEF NoCounts, Counts
<1> DEFINE S == {o \in Nat : o \in UpToN => UpTo(NoCounts, o) = 0}
<1>2. NOutcomes \in Nat
  BY SessionAssumption
<1>3. S \in SUBSET Nat /\ 0 \in S
  BY <1>1, SumSteps
<1>4. ASSUME NEW i \in S, i < NOutcomes PROVE i + 1 \in S
  <2>1. i + 1 \in Outcomes /\ (i + 1) - 1 = i /\ i \in UpToN
    BY <1>2, <1>4 DEF Outcomes, UpToN
  <2>2. UpTo(NoCounts, i + 1) = UpTo(NoCounts, i) + NoCounts[i + 1] /\ NoCounts[i + 1] = 0
    BY <1>1, <2>1, SumSteps
  <2> QED
    BY <2>1, <2>2
<1>5. 0 .. NOutcomes \subseteq S
  <2> HIDE DEF S
  <2> QED
    BY <1>2, <1>3, <1>4, Induction
<1> QED
  BY <1>1, <1>2, <1>5 DEF Total, UpToN

(* One shot less of an outcome is one less in all.                           *)
LEMMA OneLess ==
  ASSUME NEW counts \in Counts, NEW hit \in Outcomes, counts[hit] > 0,
         NEW fewer \in Counts,
         \A o \in Outcomes : fewer[o] = IF o = hit THEN counts[o] - 1 ELSE counts[o]
  PROVE  Total(fewer) = Total(counts) - 1
<1> DEFINE S == {o \in Nat : o \in UpToN =>
                   UpTo(fewer, o) = IF o < hit THEN UpTo(counts, o) ELSE UpTo(counts, o) - 1}
<1>1. NOutcomes \in Nat /\ hit \in 1 .. NOutcomes
  BY SessionAssumption DEF Outcomes
<1>2. S \in SUBSET Nat /\ 0 \in S
  BY <1>1, SumSteps
<1>3. ASSUME NEW i \in S, i < NOutcomes PROVE i + 1 \in S
  <2>1. i + 1 \in Outcomes /\ (i + 1) - 1 = i /\ i \in UpToN /\ i + 1 \in UpToN
    BY <1>1, <1>3 DEF Outcomes, UpToN
  <2>2. /\ UpTo(counts, i + 1) = UpTo(counts, i) + counts[i + 1]
        /\ UpTo(fewer, i + 1) = UpTo(fewer, i) + fewer[i + 1]
        /\ UpTo(counts, i) \in Nat /\ UpTo(fewer, i) \in Nat
        /\ counts[i + 1] \in Nat
    BY <2>1, SumSteps DEF Counts
  <2>3. fewer[i + 1] = IF i + 1 = hit THEN counts[i + 1] - 1 ELSE counts[i + 1]
    BY <2>1
  <2>4. UpTo(fewer, i) = IF i < hit THEN UpTo(counts, i) ELSE UpTo(counts, i) - 1
    BY <2>1
  <2>5. UpTo(fewer, i + 1) = IF i + 1 < hit THEN UpTo(counts, i + 1) ELSE UpTo(counts, i + 1) - 1
    BY <1>1, <2>1, <2>2, <2>3, <2>4
  <2> QED
    BY <2>5
<1>4. 0 .. NOutcomes \subseteq S
  <2> HIDE DEF S
  <2> QED
    BY <1>1, <1>2, <1>3, Induction
<1>5. NOutcomes \in S /\ NOutcomes \in UpToN /\ ~ (NOutcomes < hit)
  BY <1>1, <1>4 DEF UpToN
<1> QED
  BY <1>5 DEF Total

(* There is a shot for every index below the number of shots, and it is of   *)
(* one outcome only.                                                         *)
LEMMA ShotOfIndex ==
  ASSUME NEW counts \in Counts, NEW index \in Nat, index < Total(counts)
  PROVE  \E hit \in Outcomes : counts[hit] > 0 /\ Drawn(counts, index) = {hit}
<1> DEFINE Beyond == {o \in UpToN : UpTo(counts, o) > index}
<1>1. NOutcomes \in Nat
  BY SessionAssumption
<1>2. Hit(counts, index) # {}
  <2>1. NOutcomes \in Beyond
    BY <1>1 DEF UpToN, Total
  <2>2. PICK o \in Beyond : \A p \in Beyond : o <= p
    <3>1. Beyond \in SUBSET Nat
      BY DEF UpToN
    <3> HIDE DEF Beyond
    <3> QED
      BY <2>1, <3>1, Smallest
  <2>3. o \in Outcomes /\ o - 1 \in UpToN
    <3>1. o # 0
      BY SumSteps
    <3> QED
      BY <1>1, <3>1 DEF UpToN, Outcomes
  <2>4. o - 1 \notin Beyond
    BY <2>2, <2>3 DEF Outcomes
  <2>5. /\ UpTo(counts, o) = UpTo(counts, o - 1) + counts[o]
        /\ UpTo(counts, o) \in Nat /\ UpTo(counts, o - 1) \in Nat /\ counts[o] \in Nat
    BY <2>3, SumSteps DEF Counts
  <2>6. counts[o] > 0 /\ UpTo(counts, o) >= index
    BY <2>3, <2>4, <2>5
  <2> QED
    BY <2>3, <2>6 DEF Hit
<1>3. PICK hit \in Hit(counts, index) : \A p \in Hit(counts, index) : hit <= p
  <2>1. Hit(counts, index) \in SUBSET Nat
    BY DEF Hit, Outcomes
  <2> QED
    BY <1>2, <2>1, Smallest
<1>4. Drawn(counts, index) = {hit}
  <2>1. ASSUME NEW p \in Drawn(counts, index) PROVE p = hit
    BY <1>3 DEF Drawn, Hit, Outcomes
  <2> QED
    BY <1>3, <2>1 DEF Drawn
<1> QED
  BY <1>3, <1>4 DEF Hit

(***************************************************************************)
(* Shots: what a run reports is what is drawn and what is left.            *)
(***************************************************************************)
CountTypes ==
  /\ buffer \in [Sessions -> Counts]
  /\ results \in [Sessions -> Counts]
  /\ reported \in [Sessions -> Counts]
  /\ drawn \in [Sessions -> Counts]
  /\ shots_remaining \in [Sessions -> Nat]

(* Nothing is drawn before a run has ended.                                  *)
ShotsOf(s) ==
  IF stage[s] # "idle"
  THEN drawn[s] = NoCounts /\ shots_remaining[s] = Shots
  ELSE Total(reported[s]) = Shots =>
         /\ reported[s] = [o \in Outcomes |-> results[s][o] + drawn[s][o]]
         /\ shots_remaining[s] = Total(results[s])

ShotInv == CountTypes /\ \A s \in Sessions : ShotsOf(s)
StageType == stage \in [Sessions -> Stages]

LEMMA ReturnedCounts == PerhapsCounts \subseteq Counts
BY SessionAssumption, NoCountsTotal DEF PerhapsCounts, CountsType, Counts

LEMMA CountTypesStep ==
  ASSUME CountTypes, NEW s \in Sessions, Step(s)
  PROVE  CountTypes'
<1> USE DEF CountTypes, control, outputs, drawing, GoTo
<1>1. ASSUME NEW request \in Requests[s],
             Refuse(s, request) \/ NoRoom(s, request) \/ Run(s, request)
      PROVE  CountTypes'
  BY <1>1, NoCountsTotal, SessionAssumption DEF Refuse, NoRoom, Run
<1>2. CASE Lock(s) \/ Build(s)
  BY <1>2 DEF Lock, Build
<1>3. CASE Process(s) \/ ProcessNested(s)
  BY <1>3, NoCountsTotal DEF Process, ProcessNested
<1>4. CASE Throw(s)
  BY <1>4, NoCountsTotal DEF Throw
<1>5. ASSUME NEW counts \in PerhapsCounts, Execute(s, counts) PROVE CountTypes'
  BY <1>5, ReturnedCounts DEF Execute
<1>6. ASSUME NEW counts \in PerhapsCounts, Return(s, counts) PROVE CountTypes'
  BY <1>6, ReturnedCounts DEF Return
<1>7. ASSUME NEW index \in 0 .. Shots - 1, Draw(s, index) PROVE CountTypes'
  <2>1. shots_remaining[s] - 1 \in Nat
    BY <1>7 DEF Draw
  <2>2. shots_remaining' \in [Sessions -> Nat]
    BY <1>7, <2>1 DEF Draw
  <2> DEFINE hit == Drawn(results[s], index)
  <2> DEFINE left == [o \in Outcomes |-> IF o \in hit THEN results[s][o] - 1 ELSE results[s][o]]
  <2> DEFINE more == [o \in Outcomes |-> IF o \in hit THEN drawn[s][o] + 1 ELSE drawn[s][o]]
  <2>3. left \in Counts
    <3>1. \A o \in hit : results[s][o] > 0
      BY DEF Drawn, Hit
    <3>2. \A o \in Outcomes : results[s][o] \in Nat
      BY DEF Counts
    <3> HIDE DEF hit
    <3> QED
      BY <3>1, <3>2 DEF Counts
  <2>4. more \in Counts
    <3> HIDE DEF hit
    <3> QED
      BY DEF Counts
  <2>5. /\ results' = [results EXCEPT ![s] = left] /\ drawn' = [drawn EXCEPT ![s] = more]
        /\ UNCHANGED <<buffer, reported>>
    BY <1>7 DEF Draw
  <2> HIDE DEF left, more, hit
  <2> QED
    BY <2>2, <2>3, <2>4, <2>5
<1> QED
  BY <1>1, <1>2, <1>3, <1>4, <1>5, <1>6, <1>7 DEF Step, Enters, Leaves, Draws

LEMMA OthersShots ==
  ASSUME CountTypes, StageType, NEW s \in Sessions, Step(s), NEW t \in Sessions \ {s}
  PROVE  ShotsOf(t) => ShotsOf(t)'
<1> USE DEF CountTypes, StageType, control, outputs, drawing, GoTo
<1>1. /\ stage'[t] = stage[t] /\ results'[t] = results[t] /\ reported'[t] = reported[t]
      /\ drawn'[t] = drawn[t] /\ shots_remaining'[t] = shots_remaining[t]
  <2>1. CASE Enters(s)
    BY <2>1 DEF Enters, Refuse, NoRoom, Run
  <2>2. CASE Lock(s) \/ Build(s)
    BY <2>2 DEF Lock, Build
  <2>3. CASE Process(s) \/ ProcessNested(s)
    BY <2>3 DEF Process, ProcessNested
  <2>4. CASE Throw(s)
    BY <2>4 DEF Throw
  <2>5. CASE Leaves(s)
    BY <2>5 DEF Leaves, Execute, Return
  <2>6. CASE Draws(s)
    BY <2>6 DEF Draws, Draw
  <2> QED
    BY <2>1, <2>2, <2>3, <2>4, <2>5, <2>6 DEF Step
<1> QED
  BY <1>1 DEF ShotsOf

(* What a session reports with nothing drawn yet.                            *)
LEMMA FreshShots ==
  ASSUME NEW s \in Sessions, NEW counts \in Counts
  PROVE  counts = [o \in Outcomes |-> counts[o] + NoCounts[o]]
BY DEF Counts, NoCounts

LEMMA DrawShots ==
  ASSUME CountTypes, CountTypes', NEW s \in Sessions, NEW index \in 0 .. Shots - 1, Draw(s, index),
         ShotsOf(s)
  PROVE  ShotsOf(s)'
<1> SUFFICES ASSUME Total(reported[s]) = Shots
             PROVE  /\ reported[s] = [o \in Outcomes |-> results'[s][o] + drawn'[s][o]]
                    /\ shots_remaining'[s] = Total(results'[s])
  BY DEF ShotsOf, Draw, control, drawing
<1>1. /\ reported[s] = [o \in Outcomes |-> results[s][o] + drawn[s][o]]
      /\ shots_remaining[s] = Total(results[s])
      /\ index \in Nat /\ index < Total(results[s])
  BY SessionAssumption DEF ShotsOf, Draw
<1>2. PICK hit \in Outcomes : results[s][hit] > 0 /\ Drawn(results[s], index) = {hit}
  BY <1>1, ShotOfIndex DEF CountTypes
<1>3. \A o \in Outcomes :
        /\ results'[s][o] = IF o = hit THEN results[s][o] - 1 ELSE results[s][o]
        /\ drawn'[s][o] = IF o = hit THEN drawn[s][o] + 1 ELSE drawn[s][o]
  BY <1>2 DEF Draw, CountTypes
<1>4. shots_remaining'[s] = Total(results'[s])
  <2>1. shots_remaining'[s] = shots_remaining[s] - 1
    BY DEF Draw, CountTypes
  <2>2. results[s] \in Counts /\ results'[s] \in Counts
    BY DEF CountTypes
  <2>3. Total(results'[s]) = Total(results[s]) - 1
    BY <1>2, <1>3, <2>2, OneLess
  <2> QED
    BY <1>1, <2>1, <2>3
<1>5. \A o \in Outcomes : results'[s][o] + drawn'[s][o] = results[s][o] + drawn[s][o]
  <2>1. \A o \in Outcomes : results[s][o] \in Nat /\ drawn[s][o] \in Nat
    BY DEF CountTypes, Counts
  <2> QED
    BY <1>3, <2>1
<1> QED
  BY <1>1, <1>4, <1>5

LEMMA OwnShots ==
  ASSUME CountTypes, CountTypes', StageType, NEW s \in Sessions, Step(s), ShotsOf(s)
  PROVE  ShotsOf(s)'
<1> USE DEF control, outputs, drawing, GoTo
<1>1. ASSUME NEW request \in Requests[s],
             Refuse(s, request) \/ NoRoom(s, request) \/ Run(s, request)
      PROVE  ShotsOf(s)'
  <2>1. CASE Refuse(s, request)
    BY <2>1 DEF Refuse, ShotsOf
  <2>2. CASE NoRoom(s, request)
    <3>1. stage'[s] = "idle" /\ Total(reported'[s]) = 0
      BY <2>2, NoCountsTotal DEF NoRoom, CountTypes
    <3> QED
      BY <3>1, SessionAssumption DEF ShotsOf
  <2>3. CASE Run(s, request)
    BY <2>3 DEF Run, ShotsOf, CountTypes, StageType
  <2> QED
    BY <1>1, <2>1, <2>2, <2>3
<1>2. CASE Lock(s) \/ Build(s)
  BY <1>2 DEF Lock, Build, ShotsOf, StageType
<1>3. CASE Process(s) \/ ProcessNested(s)
  BY <1>3 DEF Process, ProcessNested, ShotsOf, StageType
<1>4. ASSUME NEW counts \in PerhapsCounts, Execute(s, counts) PROVE ShotsOf(s)'
  BY <1>4 DEF Execute, ShotsOf, StageType
<1>5. ASSUME Throw(s) \/ \E counts \in PerhapsCounts : Return(s, counts) PROVE ShotsOf(s)'
  <2>1. /\ drawn'[s] = NoCounts /\ shots_remaining'[s] = Shots
        /\ reported'[s] = results'[s] /\ results'[s] \in Counts
        /\ stage'[s] = "idle"
    BY <1>5 DEF Throw, Return, ShotsOf, CountTypes, StageType
  <2>2. results'[s] = [o \in Outcomes |-> results'[s][o] + NoCounts[o]]
    BY <2>1, FreshShots
  <2> QED
    BY <2>1, <2>2 DEF ShotsOf
<1>6. CASE Draws(s)
  BY <1>6, DrawShots DEF Draws
<1> QED
  BY <1>1, <1>2, <1>3, <1>4, <1>5, <1>6 DEF Step, Enters, Leaves

LEMMA InitShots == Init => ShotInv
<1> SUFFICES ASSUME Init PROVE ShotInv
  OBVIOUS
<1>1. CountTypes
  BY NoCountsTotal DEF Init, CountTypes
<1>2. \A s \in Sessions : ShotsOf(s)
  BY NoCountsTotal, SessionAssumption DEF Init, ShotsOf
<1> QED
  BY <1>1, <1>2 DEF ShotInv

(* Every shot of a run's results is drawn once, or left to be drawn, for     *)
(* every number of shots, of outcomes and of sessions, whatever counts the   *)
(* back ends return (draw_shot(), session.cpp).                              *)
THEOREM EveryShotOnce == Spec => []ShotsAddUp
<1>1. ShotInv /\ Types /\ [Next]_vars => ShotInv'
  <2> SUFFICES ASSUME ShotInv, Types, [Next]_vars PROVE ShotInv'
    OBVIOUS
  <2>1. StageType
    BY DEF Types, StageType
  <2>2. CASE Next
    <3>1. PICK s \in Sessions : Step(s)
      BY <2>2, NextIsStep
    <3>2. CountTypes'
      BY <3>1, CountTypesStep DEF ShotInv
    <3>3. ASSUME NEW t \in Sessions PROVE ShotsOf(t)'
      <4>1. CASE t = s
        BY <2>1, <3>1, <3>2, <4>1, OwnShots DEF ShotInv
      <4>2. CASE t # s
        BY <2>1, <3>1, <4>2, OthersShots DEF ShotInv
      <4> QED
        BY <4>1, <4>2
    <3> QED
      BY <3>2, <3>3 DEF ShotInv
  <2>3. CASE UNCHANGED vars
    BY <2>3 DEF vars, control, outputs, drawing, ShotInv, CountTypes, ShotsOf
  <2> QED
    BY <2>2, <2>3
<1>2. ShotInv => ShotsAddUp
  BY DEF ShotInv, ShotsOf, ShotsAddUp
<1>3. Inv => Types
  BY DEF Inv
<1> QED
  BY <1>1, <1>2, <1>3, InitShots, SessionInvariance, PTL DEF Spec

-----------------------------------------------------------------------------
(* The noise model of a session.  Every pair of qubits a model holds noise   *)
(* for is connected or noted in `unconnected', after each way to make or     *)
(* change it.                                                                *)

Noted == Uncoupled(model) \subseteq unconnected

(* Strengthening of PlacementNeverAborts. *)
NoiseInv == Noted /\ PlacementNeverAborts

-----------------------------------------------------------------------------
(* A default model connects every pair it has noise for. *)
LEMMA DefaultCoupled ==
  ASSUME NEW d \in Defaults
  PROVE  Uncoupled(make_default(d)) = {}
<1> DEFINE m == make_default(d)
           single == {"u1", "u2", "u3"} \X {<<q>> : q \in 0 .. d.nb_qubits - 1}
<1>1. DOMAIN m.noise = single \cup CoupledKeys(d.pairs)
  BY DEF make_default, DefaultModel, DefaultNoise, NoiseModelOf
<1>2. m.topology = {d.pairs[i] : i \in DOMAIN d.pairs}
  BY DEF make_default, DefaultModel, NoiseModelOf
<1>3. SUFFICES ASSUME NEW k \in DOMAIN m.noise, Len(k[2]) = 2
               PROVE  Connected(k[2], m.topology)
  BY DEF Uncoupled, PairsOf
<1>4. CASE k \in single
  <2>1. PICK q \in 0 .. d.nb_qubits - 1 : k[2] = <<q>>
    BY <1>4
  <2> QED BY <1>3, <2>1
<1>5. CASE k \in CoupledKeys(d.pairs)
  <2>1. PICK i \in DOMAIN d.pairs : k[2] \in {d.pairs[i], Swap(d.pairs[i])}
    BY <1>5 DEF CoupledKeys
  <2>2. PICK a \in Nat, b \in Nat : d.pairs[i] = <<a, b>>
    BY DefaultsAssumption
  <2>3. k[2] = <<a, b>> \/ Swap(k[2]) = <<a, b>>
    BY <2>1, <2>2 DEF Swap
  <2> QED BY <1>2, <2>2, <2>3 DEF Connected
<1> QED BY <1>1, <1>3, <1>4, <1>5

(* A device notes the pairs of its gates that it does not connect. *)
LEMMA DeviceNoted ==
  ASSUME NEW d \in Devices
  PROVE  Uncoupled(FromProperties(d))
           \subseteq UNION {Faults(d.gates[i].qubits, d.topology) : i \in DOMAIN d.gates}
<1> DEFINE m == FromProperties(d)
<1>1. /\ DOMAIN m.noise = UNION {{d.gates[i].gate} \X Directions(d.gates[i].qubits) : i \in DOMAIN d.gates}
      /\ m.topology = d.topology
  BY DEF FromProperties, NoiseModelOf
<1>2. SUFFICES ASSUME NEW k \in DOMAIN m.noise, Len(k[2]) = 2, ~Connected(k[2], d.topology)
               PROVE  \E i \in DOMAIN d.gates : k[2] \in Faults(d.gates[i].qubits, d.topology)
  BY <1>1 DEF Uncoupled, PairsOf
<1>3. PICK i \in DOMAIN d.gates : k[2] \in Directions(d.gates[i].qubits)
  BY <1>1
<1> DEFINE qubits == d.gates[i].qubits
<1>4. CASE Len(qubits) = 1
  BY <1>2, <1>3, <1>4 DEF Directions
<1>5. CASE Len(qubits) # 1
  <2>1. PICK a \in Nat, b \in Nat : qubits = <<a, b>>
    BY <1>5, DevicesAssumption
  <2>2. Len(qubits) = 2 /\ k[2] \in {<<a, b>>, <<b, a>>}
    BY <1>3, <1>5, <2>1 DEF Directions, Swap
  <2>3. ~Connected(qubits, d.topology)
    BY <1>2, <2>1, <2>2 DEF Connected, Swap
  <2> QED BY <1>3, <2>2, <2>3 DEF Faults
<1> QED BY <1>4, <1>5

(* A model read from a file connects the pairs of its gates. *)
LEMMA FileCoupled ==
  ASSUME NEW f
  PROVE  Uncoupled(initialise_noise_properties_from_json(f)) = {}
<1> DEFINE m == initialise_noise_properties_from_json(f)
<1>1. /\ DOMAIN m.noise = DOMAIN f.errors
      /\ m.topology = {Sorted(p) : p \in PairsOf(f.errors)}
  BY DEF initialise_noise_properties_from_json, ModelRead, NoiseModelOf
<1>2. PairsOf(m.noise) = PairsOf(f.errors)
  BY <1>1 DEF PairsOf
<1> QED BY <1>1, <1>2 DEF Uncoupled, Connected, Sorted

(* A gate error added notes its pair, in both directions, unless connected. *)
LEMMA ErrorNoted ==
  ASSUME NEW channel, NEW gate, NEW qubits
  PROVE  Uncoupled(add_gate_error(model, channel, gate, qubits))
           \subseteq Uncoupled(model) \cup Faults(qubits, model.topology)
<1> DEFINE m == add_gate_error(model, channel, gate, qubits)
<1>1. /\ DOMAIN m.noise = DOMAIN model.noise \cup {<<gate, qubits>>}
      /\ m.topology = model.topology
  BY DEF add_gate_error, NoiseModelOf
<1>2. PairsOf(m.noise) \subseteq
        PairsOf(model.noise) \cup (IF Len(qubits) = 2 THEN {qubits} ELSE {})
  BY <1>1 DEF PairsOf
<1> QED BY <1>1, <1>2 DEF Uncoupled, Faults, Directions

(* The pair that a program connects is the only one that need not be noted. *)
LEMMA ConnectionNoted ==
  ASSUME NEW p \in Connections, Noted
  PROVE  Uncoupled(add_qubit_connectivity(model, p)) \subseteq unconnected \ {p, Swap(p)}
<1> DEFINE m == add_qubit_connectivity(model, p)
<1>1. m.noise = model.noise /\ m.topology = model.topology \cup {p}
  BY DEF add_qubit_connectivity, NoiseModelOf
<1>2. SUFFICES ASSUME NEW x \in Uncoupled(m)
               PROVE  x \in Uncoupled(model) /\ x \notin {p, Swap(p)}
  BY DEF Noted
<1>3. x \in PairsOf(model.noise) /\ ~Connected(x, model.topology \cup {p})
  BY <1>1, <1>2 DEF Uncoupled
<1>4. x \in Uncoupled(model) /\ x # p /\ Swap(x) # p
  BY <1>3 DEF Uncoupled, Connected
<1>5. PICK a \in Nat, b \in Nat : p = <<a, b>>
  BY ConnectionsAssumption
<1>6. x # Swap(p)
  BY <1>4, <1>5 DEF Swap
<1> QED BY <1>4, <1>6

LEMMA ReadoutNoted ==
  ASSUME NEW q, NEW r
  PROVE  Uncoupled(set_qubit_readout_error(model, q, r)) = Uncoupled(model)
<1>1. /\ set_qubit_readout_error(model, q, r).noise = model.noise
      /\ set_qubit_readout_error(model, q, r).topology = model.topology
  BY DEF set_qubit_readout_error, NoiseModelOf
<1> QED BY <1>1 DEF Uncoupled

LEMMA Distinct == Nothing # Terminated
  BY DEF Nothing, Terminated

-----------------------------------------------------------------------------
LEMMA Initially == NoiseInit => NoiseInv
<1> SUFFICES ASSUME NoiseInit PROVE NoiseInv
  OBVIOUS
<1>1. DOMAIN model.noise = {}
  BY DEF NoiseInit, EmptyModel, NoiseModelOf
<1>2. Noted
  BY <1>1 DEF Noted, Uncoupled, PairsOf
<1> QED BY <1>2, Distinct DEF NoiseInit, NoiseInv, PlacementNeverAborts

(* A step that leaves the model and the pairs noted alone, and does not      *)
(* place.                                                                    *)
LEMMA Untouched ==
  ASSUME NoiseInv, UNCHANGED <<model, placed, unconnected>>
  PROVE  NoiseInv'
  BY DEF NoiseInv, Noted, Uncoupled, PlacementNeverAborts

(* A step that makes or changes a model and forgets the placement. *)
LEMMA Remade ==
  ASSUME Uncoupled(model)' \subseteq unconnected', placed' = Nothing
  PROVE  NoiseInv'
  BY Distinct DEF NoiseInv, Noted, PlacementNeverAborts

LEMMA Inductive == NoiseInv /\ [NoiseNext]_noiseVars => NoiseInv'
<1> SUFFICES ASSUME NoiseInv, [NoiseNext]_noiseVars PROVE NoiseInv'
  OBVIOUS
<1> USE DEF NoiseInv
<1>1. CASE Default
  <2>1. PICK d \in Defaults : New(make_default(d), {})
    BY <1>1 DEF Default
  <2>2. Uncoupled(model)' = {}
    BY <2>1, DefaultCoupled DEF New, Uncoupled
  <2> QED BY <2>1, <2>2, Remade DEF New
<1>2. CASE FromDevice
  <2>1. PICK d \in Devices :
          New(FromProperties(d),
              UNION {Faults(d.gates[i].qubits, d.topology) : i \in DOMAIN d.gates})
    BY <1>2 DEF FromDevice
  <2>2. Uncoupled(model)' = Uncoupled(FromProperties(d))
    BY <2>1 DEF New, Uncoupled
  <2> QED BY <2>1, <2>2, DeviceNoted, Remade DEF New
<1>3. CASE ReadJson
  <2>1. Uncoupled(model)' = {}
    BY <1>3, FileCoupled DEF ReadJson, New, Uncoupled
  <2> QED BY <1>3, <2>1, Remade DEF ReadJson, New
<1>4. ASSUME NEW channel, NEW gate, NEW qubits, AddedError(channel, gate, qubits)
      PROVE  NoiseInv'
  <2>1. Uncoupled(model)' = Uncoupled(add_gate_error(model, channel, gate, qubits))
    BY <1>4 DEF AddedError, Change, Uncoupled
  <2>2. unconnected' = unconnected \cup Faults(qubits, model.topology) /\ placed' = Nothing
    BY <1>4 DEF AddedError, Change
  <2> QED BY <2>1, <2>2, ErrorNoted, Remade DEF Noted
<1>5. CASE AddGateError
  BY <1>4, <1>5 DEF AddGateError
<1>6. CASE SetQubitReadoutError
  <2>1. PICK q \in Qubits, r \in ReadoutErrors :
          Change(set_qubit_readout_error(model, q, r), unconnected)
    BY <1>6 DEF SetQubitReadoutError
  <2>2. Uncoupled(model)' = Uncoupled(model)
    BY <2>1, ReadoutNoted DEF Change, Uncoupled
  <2> QED BY <2>1, <2>2, Remade DEF Change, Noted
<1>7. CASE AddQubitConnectivity
  <2>1. PICK p \in Connections :
          Change(add_qubit_connectivity(model, p), unconnected \ {p, Swap(p)})
    BY <1>7 DEF AddQubitConnectivity
  <2>2. Uncoupled(model)' = Uncoupled(add_qubit_connectivity(model, p))
    BY <2>1 DEF Change, Uncoupled
  <2> QED BY <2>1, <2>2, ConnectionNoted, Remade DEF Change
<1>8. CASE WriteJson
  BY <1>8, Untouched DEF WriteJson
<1>9. CASE Place
  <2>1. Noted'
    BY <1>9 DEF Place, Noted, Uncoupled
  <2>2. CASE Uncoupled(model) # {}
    BY <1>9, <2>1, <2>2 DEF Place, Noted, PlacementNeverAborts
  <2>3. CASE Uncoupled(model) = {}
    <3>1. to_noise_aware_placement_config(model) # Terminated
      BY DEF to_noise_aware_placement_config, Terminated
    <3> QED BY <1>9, <2>1, <2>3, <3>1 DEF Place, PlacementNeverAborts
  <2> QED BY <2>2, <2>3
<1>10. CASE Take
  BY <1>10, Untouched DEF Take, modelVars
<1>11. CASE Convert
  BY <1>11, Untouched
  DEF Convert, KrausToChoi, KrausToSuperoperator, ChoiToSuperoperator, ChoiToProcess,
      SuperoperatorToChoi, SuperoperatorToProcess, ProcessToChoi, ProcessToSuperoperator,
      ChoiToKraus, Become
<1>12. CASE Expand
  BY <1>12, Untouched DEF Expand, modelVars
<1>13. CASE PartialTrace
  BY <1>13, Untouched DEF PartialTrace, modelVars
<1>14. CASE PutBack
  BY <1>4, <1>14 DEF PutBack
<1>15. CASE UNCHANGED noiseVars
  BY <1>15, Untouched DEF noiseVars
<1> QED
  BY <1>1, <1>2, <1>3, <1>5, <1>6, <1>7, <1>8, <1>9, <1>10, <1>11, <1>12, <1>13, <1>14, <1>15
  DEF NoiseNext

(* The placement of a noise model ends the program only over a pair of       *)
(* qubits that the program, or the device it describes, gave noise and has   *)
(* not connected: a default model and one read from a file, left as they     *)
(* are, never do.                                                            *)
THEOREM NeverAborts == NoiseSpec => []PlacementNeverAborts
<1>1. NoiseInv => PlacementNeverAborts
  BY DEF NoiseInv
<1> QED BY <1>1, Initially, Inductive, PTL DEF NoiseSpec
=============================================================================
