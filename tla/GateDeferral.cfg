SPECIFICATION Spec
CONSTANTS
  Circuits <- MCCircuits
  MaxMore = 2
INVARIANT DefersOnly
CHECK_DEADLOCK FALSE
