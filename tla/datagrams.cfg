SPECIFICATION FairSpec
CONSTANTS
  UdpFlows = {u}
  DnsFlows = {d}
  IcmpFlows = {p}
  EchoIds = {1}
  MaxSessions = 1
  Slots = {s1, s2}
  MaxQueue = 1
INVARIANTS
  TypeOK
  SocketsMatchStates
  EventsNameLiveSessions
  OneSessionPerFlow
PROPERTIES
  NoGrowthAtLimit
  FinishedSessionsAreFreed
