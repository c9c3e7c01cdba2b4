SPECIFICATION Spec
CONSTANTS
  Half = 16
  Wraps = TRUE
  AppISNs = {5}
  LocalISNs = {5}
  AppBytes = 2
  RemoteBytes = 0
  Windows = {1}
  MaxTun = 2
  Lossy = FALSE
  TunFails = FALSE
  SynData = FALSE
INVARIANT QueueIsNeverStuck
