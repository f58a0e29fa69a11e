CONSTANTS
  Tunnel = {t1, t2}
  Name = {a, b}
  Forward = {f1, f2}
  Dest = {d}
  User = {u1, u2}
  Peer = {p1, p2}
  Address = {x, y}
  DeviceLimit = 1
  Request = {r1, r2}
  None = None
  MaxRequests = 5
  MaxFaults = 2
SPECIFICATION Spec
SYMMETRY Symmetry
CONSTRAINT Separately
INVARIANTS TypeOK TunnelAsTold ForwardAsTold PeerAsTold AllocationHolds
\* A run ends when the requests are used up.
CHECK_DEADLOCK FALSE
