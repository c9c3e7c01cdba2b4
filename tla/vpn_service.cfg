SPECIFICATION FairSpec
CONSTANTS
  Callers = {"main"}
  MaxBroadcasts = 2
  MaxStarts = 2
INVARIANTS
  TypeOK
  ClearsAlone
  ServingThreadIsKnown
  StoppedMeansStopped
  ShownIsTrue
PROPERTY CallsReturn
