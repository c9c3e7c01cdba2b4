SPECIFICATION Spec
CONSTANTS
  UdpFlows = {u}
  DnsFlows = {d}
  IcmpFlows = {p}
  EchoIds = {1, 2}
  MaxSessions = 2
  Slots = {s1, s2}
  MaxQueue = 1
INVARIANT OriginalIdRestored
