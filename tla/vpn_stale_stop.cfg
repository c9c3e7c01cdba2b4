SPECIFICATION Spec
CONSTANTS
  Callers = {"main"}
  MaxBroadcasts = 2
  MaxStarts = 2
INVARIANT StartedMeansServed
