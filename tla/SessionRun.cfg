SPECIFICATION FairSpec
CONSTANTS
  s1 = s1
  s2 = s2
  fixed = fixed
  free = free
  Nobody = Nobody
  Sessions = {s1, s2}
  Circuits = {fixed, free}
  Parametrised = {free}
  Requests <- MCRequests
  MaxRuns <- MCMaxRuns
  Shots = 2
  NOutcomes = 2
  Drawers = {s1}
  Returned <- MCReturned
INVARIANT LockedRunsExclusive
INVARIANT OutputsOfThisRun
INVARIANT ShotsAddUp
PROPERTY EveryRunEnds
CHECK_DEADLOCK FALSE
