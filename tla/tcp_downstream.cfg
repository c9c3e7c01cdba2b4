SPECIFICATION Spec
CONSTANTS
  Half = 16
  Wraps = TRUE
  AppISNs = {5}
  LocalISNs = {30}
  AppBytes = 1
  RemoteBytes = 2
  Windows = {0, 2}
  MaxTun = 1
  Lossy = FALSE
  TunFails = TRUE
  SynData = FALSE
INVARIANTS
  SocketMatchesState
  EventsNameLiveSessions
  NoGapForApp
  WithinAppWindow
  NothingAfterReset
  NoFutureAck
PROPERTY ClosingIsFinal
