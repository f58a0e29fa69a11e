CONSTANTS
  Tunnel = {}
  Name = {}
  Forward = {}
  Dest = {}
  User = {u1}
  Peer = {p1, p2}
  Address = {x, y}
  DeviceLimit = 1
  Request = {r1, r2}
  None = None
  MaxRequests = 2
  MaxFaults = 0
SPECIFICATION Spec
INVARIANTS NoDoubleAllocation
\* A run ends when the requests are used up.
CHECK_DEADLOCK FALSE
