CONSTANTS
  Tunnel = {t1}
  Name = {a}
  Forward = {}
  Dest = {}
  User = {}
  Peer = {}
  Address = {}
  DeviceLimit = 1
  Request = {r1}
  None = None
  MaxRequests = 3
  MaxFaults = 0
SPECIFICATION Spec
INVARIANTS RefreshedRuns
\* A run ends when the requests are used up.
CHECK_DEADLOCK FALSE
