----------------------------- MODULE Translation -----------------------------
(* A circuit is walked, gate by gate, and written down again in the gates of *)
(* a back end: by the Quantum Brilliance visitors for the hardware (qdk.cpp) *)
(* and for the gate set transpiler, by the visitors of AWSAccelerator.cpp,   *)
(* by the CUDAQ converter, and by the TKET converter, which also brings the  *)
(* result back.                                                              *)
(* The names that Qdk has as well begin with Walk.                           *)
EXTENDS QbVisitor, BraketVisitors, ForeignCircuits, Selection

CONSTANTS Tasks     \* pairs of a back end and a circuit (a sequence of gates)

(* The gates a circuit may have.  An angle that a handler halves is a        *)
(* multiple of pi/2, for the half to be one of pi/4.                         *)
Shaped(g) ==
  /\ g = Gate(g.name, g.on, g.angles)
  /\ g.on \in Seq(Nat) \ {<<>>} /\ g.angles \in Seq(Int)
  /\ g.name \in {"CNOT", "CZ", "ACZ", "CPhase", "Swap"} => Len(g.on) = 2
  /\ g.name = "U" => Len(g.angles) = 3
  /\ g.name = "CPhase" => Len(g.angles) = 1
  /\ g.name \in {"U", "CPhase"} => \A k \in DOMAIN g.angles : g.angles[k] % 2 = 0
BackEnds ==
  [kind : {"qb", "transpiler", "aws", "openqasm3", "cudaq", "tket"},
   anti : BOOLEAN, restricted : BOOLEAN, verbatim : BOOLEAN, noise : BOOLEAN]
TasksShaped ==
  \A task \in Tasks :
    /\ task.backEnd \in BackEnds
    /\ task.circuit \in Seq(Range(task.circuit))
    /\ \A g \in Range(task.circuit) : Shaped(g)
ASSUME TasksAssumption == TasksShaped

VARIABLES backEnd,  \* its kind and options
          left,     \* the gates not walked yet
          walked,   \* those walked
          output,   \* what was written
          measured, \* order_of_m, measure_bits, or what to_xacc holds back
          place     \* "walking", "returning" (from TKET), "done", "refused"
walkVars == <<backEnd, left, walked, output, measured, place>>

(* What the handler of gate g may write.                                     *)
Written(b, g) ==
  CASE b.kind \in {"qb", "transpiler"} -> QbPushed(g, b.anti, b.restricted)
    [] b.kind = "aws" -> {AWSWritten(g, b.verbatim)}
    [] b.kind = "openqasm3" -> {IF b.noise THEN QASMWrittenNoisy(g) ELSE QASMWritten(g)}
    [] b.kind = "cudaq" -> {CudaqCalls(g)}
    [] b.kind = "tket" -> {ToTket(g)}

(* The handlers that throw, or fail an assertion.                            *)
Refuses(b, g) ==
  \/ b.kind = "tket" /\ g.name \in TketRefuses
  \/ b.kind = "openqasm3" /\ g.name \in {"CRZ", "Rphi"}

WalkInit ==
  /\ \E task \in Tasks : backEnd = task.backEnd /\ left = task.circuit
  /\ walked = <<>>
  /\ output = <<>>
  /\ measured = <<>>
  /\ place = "walking"

Walking == place = "walking" /\ left # <<>>
Walk == walked' = Append(walked, Head(left)) /\ left' = Tail(left)

Visit ==
  /\ Walking /\ Head(left).name # "Measure" /\ ~ Refuses(backEnd, Head(left))
  /\ Walk
  /\ \E w \in Written(backEnd, Head(left)) : output' = output \o w
  /\ UNCHANGED <<backEnd, measured, place>>

(* The hardware is told what to measure beside the circuit, Braket's SDK and *)
(* CUDAQ measure at the end.  OpenQASM measures in place, bit k the k-th     *)
(* time; a verbatim box ends at the first measurement.                       *)
MeasureLine(q, k) ==
  (IF backEnd.verbatim /\ k = 0 THEN <<[name |-> "endbox", on |-> <<>>, angles |-> <<>>]>> ELSE <<>>)
    \o <<MeasureOf(q)>>

VisitMeasure ==
  /\ Walking /\ Head(left).name = "Measure"
  /\ Walk
  /\ LET q == Head(left).on[1]
     IN /\ measured' = IF backEnd.kind = "tket" THEN measured ELSE Append(measured, q)
        /\ output' = CASE backEnd.kind = "openqasm3" -> output \o MeasureLine(q, Len(measured))
                       [] backEnd.kind = "tket" -> output \o ToTket(Head(left))
                       [] OTHER -> output
  /\ UNCHANGED <<backEnd, place>>

Throw ==
  /\ Walking /\ Refuses(backEnd, Head(left))
  /\ place' = "refused"
  /\ UNCHANGED <<backEnd, left, walked, output, measured>>

(* At the end the transpiler puts the measurements behind the gates; the     *)
(* TKET circuit, here as it was converted, goes back.                        *)
Finish ==
  /\ place = "walking" /\ left = <<>>
  /\ IF backEnd.kind = "tket"
     THEN place' = "returning" /\ left' = output /\ output' = <<>>
     ELSE /\ place' = "done" /\ left' = left
          /\ output' = IF backEnd.kind = "transpiler"
                       THEN output \o [i \in DOMAIN measured |-> MeasureOf(measured[i])] ELSE output
  /\ UNCHANGED <<backEnd, walked, measured>>

-----------------------------------------------------------------------------
(* to_xacc; measured is a sequence, its range what is held back.             *)

Returning == place = "returning" /\ left # <<>>
Held == {measured[i] : i \in DOMAIN measured}

ReturnGate ==
  /\ Returning /\ Head(left).op # "Measure"
  /\ LET g == ToXacc(Head(left))
         still == StillHeld(g, Held)
     IN /\ output' = output \o PutOut(g, Held)
        /\ measured' = Among(measured, still)
  /\ left' = Tail(left)
  /\ UNCHANGED <<backEnd, walked, place>>

(* A second measurement of the same bit is not inserted.                     *)
ReturnMeasure ==
  /\ Returning /\ Head(left).op = "Measure"
  /\ LET q == Head(left).on[1]
     IN measured' = IF q \in Held THEN measured ELSE Append(measured, q)
  /\ left' = Tail(left)
  /\ UNCHANGED <<backEnd, walked, output, place>>

Return ==
  /\ place = "returning" /\ left = <<>>
  /\ place' = "done"
  /\ output' = output \o [i \in DOMAIN Ascending(Held) |-> MeasureOf(Ascending(Held)[i])]
  /\ UNCHANGED <<backEnd, left, walked, measured>>

Done == place \in {"done", "refused"} /\ UNCHANGED walkVars

WalkNext ==
  \/ Visit \/ VisitMeasure \/ Throw \/ Finish
  \/ ReturnGate \/ ReturnMeasure \/ Return \/ Done
WalkSpec == WalkInit /\ [][WalkNext]_walkVars

-----------------------------------------------------------------------------
(* What gates that are not in the reference mean in terms of those that are. *)
Meaning(g) ==
  CASE g.name = "ACZ" -> <<Gate("X", <<g.on[1]>>, <<>>), Gate("CZ", g.on, <<>>), Gate("X", <<g.on[1]>>, <<>>)>>
    [] g.name = "iSwap" -> <<Gate("S", <<g.on[1]>>, <<>>), Gate("S", <<g.on[2]>>, <<>>),
                             Gate("CZ", g.on, <<>>), Gate("Swap", g.on, <<>>)>>
    [] OTHER -> <<g>>

Gates(circuit) ==
  Among(circuit, {g \in Range(circuit) : "name" \in DOMAIN g /\ g.name \notin {"Measure", "endbox"}})
Computed(circuit) == After(Identity, FlattenSeq([i \in DOMAIN Gates(circuit) |-> Meaning(Gates(circuit)[i])]))

Readable(g) == g.name # "unreadable" /\ \A i \in DOMAIN g.angles : g.angles[i] # NotANumber

(* At every step of the walk, what was written down computes what was        *)
(* walked, up to a phase of the whole circuit that no measurement sees       *)
(* (visitor.cpp, visitor_CZ.cpp, visitor_ACZ.cpp, AWSVisitor.hpp,            *)
(* AWSOpenQasm3Visitor.hpp, cudaq/ir_converter.cpp); and what came back from *)
(* TKET computes what went there (tket_ir_converter.cpp).                    *)
SameCircuit ==
  (place = "walking" /\ backEnd.kind # "tket") \/ place = "done" =>
    /\ \A i \in DOMAIN Gates(output) : Readable(Gates(output)[i])
    /\ SameUpToPhase(Computed(walked), Computed(output))

(* Of each qubit, the gates before and after each of its measurements are    *)
(* the same after the way to TKET and back: a measurement is held back until *)
(* the next gate on its qubit, and no longer (tket_ir_converter.cpp).        *)
QubitsOf(g) == Range(g.on)
On(q, circuit) == Among(circuit, {g \in Range(circuit) : q \in QubitsOf(g)})
WithoutIdentities(circuit) == Among(circuit, {g \in Range(circuit) : g.name # "I"})
MeasurementsInPlace ==
  place = "done" /\ backEnd.kind = "tket" =>
    \A q \in UNION {QubitsOf(g) : g \in Range(walked)} :
      On(q, output) = On(q, WithoutIdentities(walked))

(* The hardware is given its own gates only, and no angle beyond a half turn *)
(* when angles are to be cut, however many turns the circuit asks for        *)
(* (visitor.cpp, visitor::norm).                                             *)
NativeAndInRange ==
  backEnd.kind \in {"qb", "transpiler"} =>
    \A i \in DOMAIN Gates(output) :
      LET g == Gates(output)[i]
      IN /\ g.name \in {"I", "Rx", "Ry", IF backEnd.anti THEN "ACZ" ELSE "CZ"}
         /\ backEnd.restricted => \A k \in DOMAIN g.angles : g.angles[k] \in -Pi .. Pi

-----------------------------------------------------------------------------
(* What the circuits given to these back ends are spared, for the two        *)
(* properties above to hold (see the README for what the code does else).    *)

(* For the hardware: the quotients in visitor::visit(U) that are 0 / 0.      *)
Undefined(g) ==
  /\ g.name = "U" /\ g.angles[1] = 0
  /\ g.angles[2] + g.angles[3] = 0 /\ g.angles[3] \notin {0, 2}
Numerical ==
  \A task \in Tasks : \A g \in Range(task.circuit) :
    task.backEnd.kind \in {"qb", "transpiler"} => ~ Undefined(g)

(* For TKET: gates it has no operation for; a gate that meets two qubits     *)
(* which were measured and not used since; a second measurement of a qubit   *)
(* not used since the first.                                                 *)
TketGates ==
  [name : DOMAIN TketOps \cup {"I"} \cup TketRefuses, on : Seq(Nat), angles : Seq(Int)]
Fresh(circuit, q, i) ==
  \E j \in 1 .. i - 1 :
    /\ circuit[j] = MeasureOf(q)
    /\ \A k \in j + 1 .. i - 1 : q \notin QubitsOf(circuit[k])
Apart(circuit) ==
  \A i \in DOMAIN circuit : \A p, q \in QubitsOf(circuit[i]) :
    Fresh(circuit, p, i) /\ Fresh(circuit, q, i) => p = q /\ circuit[i].name # "Measure"
Convertible ==
  \A task \in Tasks : task.backEnd.kind = "tket" =>
    /\ \A g \in Range(task.circuit) :
         g \in TketGates /\ (g.name = "Measure" => g = MeasureOf(g.on[1]))
    /\ Apart(WithoutIdentities(task.circuit))
=============================================================================
