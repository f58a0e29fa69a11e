CONSTANTS
  Tunnel = {}
  Name = {}
  Forward = {}
  Dest = {}
  User = {u1}
  Peer = {p1}
  Address = {x}
  DeviceLimit = 1
  Request = {r1}
  None = None
  MaxRequests = 3
  MaxFaults = 0
SPECIFICATION Spec
INVARIANTS RestoredPeersConnect
\* A run ends when the requests are used up.
CHECK_DEADLOCK FALSE
