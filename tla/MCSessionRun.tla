---------------------------- MODULE MCSessionRun ----------------------------
EXTENDS SessionRun

CONSTANTS
  fixed, free,  \* circuits without and with a free parameter
  s1, s2        \* sessions: the first makes two runs

MCMaxRuns == [s \in Sessions |-> IF s = s1 THEN 2 ELSE 1]

Setting(acc, circuit, on) ==
  [acc |-> acc, circuit |-> circuit,
   execute_circuit |-> "execute" \in on, calc_gradients |-> "gradients" \in on,
   calc_state_vec |-> "state_vec" \in on, output_oqm |-> "oqm" \in on, spam |-> "spam" \in on]

AllRequests ==
  {Setting("wavefunction", free, {"execute", "gradients", "state_vec"}),
   Setting("tnqvm", fixed, {"execute", "gradients", "oqm", "state_vec"}),
   Setting("wavefunction", fixed, {"oqm"}),
   Setting("open", free, {"execute", "spam"}),
   Setting("hardware", fixed, {"execute", "oqm"})}

MCRequests ==
  [s \in Sessions |-> IF s = s1 THEN AllRequests ELSE {q \in AllRequests : q.calc_state_vec /\ ~q.output_oqm}]

(* All shots, spread over the outcomes or on the last alone, and too few. *)
MCReturned ==
  {[o \in Outcomes |-> CASE o = 1 -> Shots - 1 [] o = 2 -> 1],
   [o \in Outcomes |-> IF o = 2 THEN Shots ELSE 0],
   [o \in Outcomes |-> IF o = 1 THEN Shots - 1 ELSE 0]}
=============================================================================
