CONSTANTS
  CallList <- MCCalls
  Score <- MCScore
  Metric <- MCMetric
SPECIFICATION Spec
INVARIANTS
  Computes
  ComparatorMarks
  BeamsAreContracted
  MeansAreOfTheBeam
