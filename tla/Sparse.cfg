SPECIFICATION Spec
CONSTANTS
  Qubits <- MCQubits
  Openings <- MCOpenings
  Gates <- MCGates
  Calls <- MCCalls
  Most <- MCMost
INVARIANT SameState
INVARIANT AnswersAreRight
CHECK_DEADLOCK FALSE
