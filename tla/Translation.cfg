SPECIFICATION WalkSpec
CONSTANTS
  Tasks <- MCTasks
  NotANumber = NotANumber
INVARIANTS
  SameCircuit
  MeasurementsInPlace
  NativeAndInRange
