SPECIFICATION FairSpec
CONSTANTS
  Half = 16
  Wraps = TRUE
  AppISNs = {30}
  LocalISNs = {5}
  AppBytes = 1
  RemoteBytes = 0
  Windows = {1}
  MaxTun = 1
  Lossy = FALSE
  TunFails = TRUE
  SynData = TRUE
PROPERTY EveryClosingSessionIsFreed
PROPERTY ImplementsLifecycle
