SPECIFICATION Spec
CONSTANTS
  Builders = {p, q}
  Sessions = {s, t}
  Gates <- MCGates
  Free <- MCFree
  Programs <- MCPrograms
  Calls <- MCCalls
  MaxGates = 4
  CallsWithin = 1
CONSTRAINT MCMapLast
SYMMETRY MCSymmetry
INVARIANTS
  NothingLost
  ParametersListed
  ArgumentsArrive
  RunsAreWhole
