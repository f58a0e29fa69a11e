CONSTANTS
  NodeId = {n1}
  Probe = {p1, p2, p3}
SPECIFICATION Spec
INVARIANTS TypeOK StatusFitsFlags StatusFitsFailures
PROPERTIES OnlineSettles OfflineSettles
