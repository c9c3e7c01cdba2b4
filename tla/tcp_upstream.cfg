SPECIFICATION Spec
CONSTANTS
  Half = 16
  Wraps = TRUE
  AppISNs = {30}
  LocalISNs = {5}
  AppBytes = 2
  RemoteBytes = 0
  Windows = {1}
  MaxTun = 2
  Lossy = TRUE
  TunFails = FALSE
  SynData = TRUE
INVARIANTS
  TypeOK
  SynAndFinCountedOnce
  ForwardedInOrder
  NoAckOfUnsent
